---- MODULE Spec2Model ----
(***************************************************************************)
(* Model of the index-wallets backend payment path:                        *)
(*   - the pure payment calculator (src/src/utils/payment_calculator.rs),  *)
(*   - the payment handlers (src/src/handlers/message_handler.rs) and the  *)
(*     MongoDB operations they call (src/src/services/mongodb.rs).         *)
(*                                                                         *)
(* f64 quantities are modelled as exact rationals <<n, d>> (d > 0, lowest  *)
(* terms): the model follows the code's arithmetic without its rounding.   *)
(* Every database call of a handler is one atomic step; handlers of        *)
(* different requests interleave between those steps, as the async         *)
(* handlers of the actix-web server do.                                    *)
(***************************************************************************)
EXTENDS Integers, Sequences, FiniteSets, TLC

(***************************************************************************)
(* Bounds of the model.                                                    *)
(***************************************************************************)
\* requests admitted in one behaviour of Spec
MaxRequests == 6
\* pure-calculator inputs (SpecCalc)
MaxBalance == 2
MaxValuation == 2
MaxPrice == 8
MaxPref == 1
\* pure-calculator inputs (SpecApply): |amount_used| of a consumption
MaxUsed == 1
\* transaction records the sign requests of one behaviour may ask for
MaxRecords == 2
\* SpecWindow: transaction records stored, and how many of them are of
\* another token or carry a timestamp not later than all stored ones
MaxStored == 22
MaxSkew == 1
\* SpecCurve: the fiat amount in steps of 25 dollars, the tokens purchased so
\* far in steps of 50,000 tokens
MaxAmount == 8
MaxTokens == 4
\* SpecCode: characters in a payment code of the request path
MaxCodeLen == 3

(***************************************************************************)
(* Exact rational arithmetic standing for the code's f64 arithmetic.       *)
(***************************************************************************)
Abs(n) == IF n < 0 THEN -n ELSE n

RECURSIVE GCD(_, _)
GCD(a, b) == IF b = 0 THEN a ELSE GCD(b, a % b)

\* n/d in lowest terms with a positive denominator, g their gcd
Reduce(n, d, g) == IF d < 0 THEN <<(-n) \div g, (-d) \div g>>
                   ELSE <<n \div g, d \div g>>
Norm(n, d) == Reduce(n, d, GCD(Abs(n), Abs(d)))

R(n) == <<n, 1>>
RZero == <<0, 1>>
ROne == <<1, 1>>
RAdd(x, y) == Norm(x[1] * y[2] + y[1] * x[2], x[2] * y[2])
RSub(x, y) == Norm(x[1] * y[2] - y[1] * x[2], x[2] * y[2])
RMul(x, y) == Norm(x[1] * y[1], x[2] * y[2])
\* only used where the code has checked the divisor to be nonzero
RDiv(x, y) == Norm(x[1] * y[2], x[2] * y[1])
RNeg(x) == <<-x[1], x[2]>>
RAbs(x) == <<Abs(x[1]), x[2]>>
RLt(x, y) == x[1] * y[2] < y[1] * x[2]
RLe(x, y) == x[1] * y[2] <= y[1] * x[2]
RMin(x, y) == IF RLe(x, y) THEN x ELSE y
RMax(x, y) == IF RLe(x, y) THEN y ELSE x

\* const LAMBDA: f64 = 0.2 (LAMBDA is a reserved word of TLA+)
Lambda == <<1, 5>>

(***************************************************************************)
(* Tokens and strings.  A token has a token_key, a symbol and a name; the  *)
(* preference Document is keyed by strings.                                *)
(***************************************************************************)
BTC == [token_key |-> "kBTC", symbol |-> "BTC", name |-> "Bitcoin"]
USD == [token_key |-> "kUSD", symbol |-> "USD", name |-> "Dollar"]
\* a token no wallet of the model holds
ETH == [token_key |-> "kETH", symbol |-> "ETH", name |-> "Ether"]

\* str::to_lowercase on the strings of the model
to_lowercase(s) ==
    CASE s = "BTC" -> "btc"
      [] s = "USD" -> "usd"
      [] s = "Bitcoin" -> "bitcoin"
      [] s = "Dollar" -> "dollar"
      [] OTHER -> s

\* format!("{}_valuation", token.symbol)
valuation_key(symbol) == symbol \o "_valuation"

\* TokenBalance { token_key, symbol, name, balance, average_valuation }
TokenBalance(tok, balance, average_valuation) ==
    [token_key |-> tok.token_key, symbol |-> tok.symbol, name |-> tok.name,
     balance |-> balance, average_valuation |-> average_valuation]

\* bson Document: a function from the keys present to f64 values
EmptyDocument == [k \in {} |-> RZero]
DocGet(doc, key) == IF key \in DOMAIN doc THEN <<doc[key]>> ELSE <<>>
DocInsert(doc, key, value) ==
    [k \in DOMAIN doc \cup {key} |-> IF k = key THEN value ELSE doc[k]]

(***************************************************************************)
(* payment_calculator.rs                                                   *)
(***************************************************************************)
\* the Vec (a sequence value) with the elements of f, f a function on 1..n
Vec(f) == f \o <<>>

RECURSIVE SumSeq(_)
SumSeq(s) == IF s = <<>> THEN RZero ELSE RAdd(Head(s), SumSeq(Tail(s)))

\* iter().map(|b| b.balance * b.average_valuation).sum()
total_wallet_value(balances) ==
    SumSeq(Vec([i \in 1..Len(balances) |->
              RMul(balances[i].balance, balances[i].average_valuation)]))

\* the or_else chain of calculate_vendor_valuations: symbol, name, lowercase
\* symbol, lowercase name; 0.0 when none is present
preference_amount(user_preferences, token) ==
    LET hits == DocGet(user_preferences, token.symbol)
                \o DocGet(user_preferences, token.name)
                \o DocGet(user_preferences, to_lowercase(token.symbol))
                \o DocGet(user_preferences, to_lowercase(token.name))
    IN  IF hits = <<>> THEN RZero ELSE hits[1]

\* user_preferences.get("<symbol>_valuation") or the market valuation
vendor_valuation(user_preferences, token) ==
    LET hit == DocGet(user_preferences, valuation_key(token.symbol))
    IN  IF hit = <<>> THEN token.average_valuation ELSE hit[1]

\* a faulty variant of discount_amount: the whole budget, without the cap
discount_amount_mut_nocap(preference, token_payment_value) == preference

\* Discount = min(LAMBDA * payment_value, preference_budget), signed

discount_amount(preference, token_payment_value) ==
    IF preference # RZero
    THEN LET max_consumption == RMul(Lambda, token_payment_value)
         IN  IF RLt(RZero, preference)
             THEN RMin(max_consumption, preference)
             ELSE RNeg(RMin(max_consumption, RAbs(preference)))
    ELSE RZero

\* payment_amount * (token_value / total_balance)
token_payment_value(token, payment_amount, total_balance) ==
    RMul(payment_amount,
         RDiv(RMul(token.balance, token.average_valuation), total_balance))

\* the for loop of calculate_vendor_valuations (23-72), total_balance given
vendor_valuations_loop(user_preferences, available_tokens, payment_amount, total_balance) ==
    IF total_balance = RZero
    THEN [valuations |-> <<>>, consumptions |-> <<>>]
    ELSE [valuations |->
            Vec([i \in 1..Len(available_tokens) |->
               [token_key |-> available_tokens[i].token_key,
                symbol |-> available_tokens[i].symbol,
                valuation |-> vendor_valuation(user_preferences,
                                               available_tokens[i])]]),
          consumptions |->
            Vec([i \in 1..Len(available_tokens) |->
               [token_key |-> available_tokens[i].token_key,
                symbol |-> available_tokens[i].symbol,
                amount_used |->
                   discount_amount(
                      preference_amount(user_preferences, available_tokens[i]),
                      token_payment_value(available_tokens[i], payment_amount,
                                          total_balance))]])]

calculate_vendor_valuations(user_preferences, available_tokens, payment_amount) ==
    vendor_valuations_loop(user_preferences, available_tokens, payment_amount,
                           total_wallet_value(available_tokens))

\* Result<_, String>: an error message is its kind and, for the
\* "Insufficient <symbol>: need <n> but have <h>" message, its three fields
Ok(v) ==
    [ok |-> TRUE, value |-> v, err |-> "", symbol |-> "", need |-> RZero, have |-> RZero]
Err(kind, symbol) ==
    [ok |-> FALSE, value |-> <<>>, err |-> kind, symbol |-> symbol, need |-> RZero, have |-> RZero]
Insufficient(symbol, need, have) ==
    [ok |-> FALSE, value |-> <<>>, err |-> "Insufficient", symbol |-> symbol, need |-> need, have |-> have]

\* a faulty variant of tokens_to_pay: the payment value, not converted to
\* token units
tokens_to_pay_mut_fiat_units(balance, total_price, total_value) ==
    RMul(total_price,
         RDiv(RMul(balance.balance, balance.average_valuation), total_value))

\* tokens_to_pay of one balance in calculate_payment_bundle
tokens_to_pay(balance, total_price, total_value) ==
    LET token_value == RMul(balance.balance, balance.average_valuation)
        payment_proportion == RDiv(token_value, total_value)
        payment_value == RMul(total_price, payment_proportion)
    IN  IF RLt(RZero, balance.average_valuation)
        THEN RDiv(payment_value, balance.average_valuation)
        ELSE RZero

\* the for loop of calculate_payment_bundle (95-125), from balance i on;
\* bundle_step is its body for balance i, which would pay `pay` tokens
RECURSIVE bundle_loop(_, _, _, _, _)

\* a faulty variant of bundle_step: no check of tokens_to_pay against the
\* balance
bundle_step_mut_no_check(payer_balances, total_price, total_value, i, payments, balance, pay) ==
    IF balance.balance = RZero
    THEN bundle_loop(payer_balances, total_price, total_value, i + 1, payments)
    ELSE bundle_loop(payer_balances, total_price, total_value, i + 1,
                     Append(payments,
                            [token_key |-> balance.token_key,
                             symbol |-> balance.symbol,
                             amount_to_pay |-> pay]))

\* a faulty variant of bundle_step: the error names the first token of the
\* input, whichever token exceeds its balance
bundle_step_mut_names_first(payer_balances, total_price, total_value, i, payments, balance, pay) ==
    IF balance.balance = RZero
    THEN bundle_loop(payer_balances, total_price, total_value, i + 1, payments)
    ELSE IF RLt(balance.balance, pay)
    THEN Insufficient(payer_balances[1].symbol, pay, balance.balance)
    ELSE bundle_loop(payer_balances, total_price, total_value, i + 1,
                     Append(payments,
                            [token_key |-> balance.token_key,
                             symbol |-> balance.symbol,
                             amount_to_pay |-> pay]))

\* a faulty variant of bundle_step: a token of balance 0 gets an entry too
bundle_step_mut_keep_zero(payer_balances, total_price, total_value, i, payments, balance, pay) ==
    IF RLt(balance.balance, pay)
    THEN Insufficient(balance.symbol, pay, balance.balance)
    ELSE bundle_loop(payer_balances, total_price, total_value, i + 1,
                     Append(payments,
                            [token_key |-> balance.token_key,
                             symbol |-> balance.symbol,
                             amount_to_pay |-> pay]))

bundle_step(payer_balances, total_price, total_value, i, payments, balance, pay) ==
    IF balance.balance = RZero
    THEN bundle_loop(payer_balances, total_price, total_value, i + 1, payments)
    ELSE IF RLt(balance.balance, pay)
    THEN Insufficient(balance.symbol, pay, balance.balance)
    ELSE bundle_loop(payer_balances, total_price, total_value, i + 1,
                     Append(payments,
                            [token_key |-> balance.token_key,
                             symbol |-> balance.symbol,
                             amount_to_pay |-> pay]))

bundle_loop(payer_balances, total_price, total_value, i, payments) ==
    IF i > Len(payer_balances) THEN Ok(payments)
    ELSE bundle_step(payer_balances, total_price, total_value, i, payments,
                     payer_balances[i],
                     tokens_to_pay(payer_balances[i], total_price, total_value))

\* vendor_valuations is a parameter the function never reads
bundle_from(payer_balances, total_price, total_value) ==
    IF total_value = RZero
    THEN Err("Portfolio has no value", "")
    ELSE bundle_loop(payer_balances, total_price, total_value, 1, <<>>)

calculate_payment_bundle(payer_balances, vendor_valuations, total_price) ==
    bundle_from(payer_balances, total_price, total_wallet_value(payer_balances))

\* iter().find(|x| x.token_key == key): the first match, <<>> when none
FindByKey(seq, key) ==
    LET hits == SelectSeq(seq, LAMBDA x : x.token_key = key)
    IN  IF hits = <<>> THEN <<>> ELSE <<hits[1]>>

\* a faulty variant of apply_discount: the amount is not kept at 0 or above
apply_discount_mut_noclamp(payment, discount_consumptions, payer_balances) ==
    LET discount == FindByKey(discount_consumptions, payment.token_key)
        bal == FindByKey(payer_balances, payment.token_key)
        market_value == IF bal = <<>> THEN ROne ELSE bal[1].average_valuation
    IN  IF discount # <<>> /\ RLt(RZero, market_value)
           /\ discount[1].amount_used # RZero
        THEN [payment EXCEPT !.amount_to_pay =
                 RSub(payment.amount_to_pay,
                      RDiv(discount[1].amount_used, market_value))]
        ELSE payment

\* a faulty variant of apply_discount: the fiat amount is multiplied by the
\* market valuation where the code divides by it
apply_discount_mut_times_valuation(payment, discount_consumptions, payer_balances) ==
    LET discount == FindByKey(discount_consumptions, payment.token_key)
        bal == FindByKey(payer_balances, payment.token_key)
        market_value == IF bal = <<>> THEN ROne ELSE bal[1].average_valuation
    IN  IF discount # <<>> /\ RLt(RZero, market_value)
           /\ discount[1].amount_used # RZero
        THEN LET token_discount == RMul(discount[1].amount_used, market_value)
                 reduced == RSub(payment.amount_to_pay, token_discount)
             IN  [payment EXCEPT !.amount_to_pay =
                     IF RLt(reduced, RZero) THEN RZero ELSE reduced]
        ELSE payment

\* the body of the for loop of apply_discounts_to_payment, for one payment
apply_discount(payment, discount_consumptions, payer_balances) ==
    LET discount == FindByKey(discount_consumptions, payment.token_key)
        bal == FindByKey(payer_balances, payment.token_key)
        market_value == IF bal = <<>> THEN ROne ELSE bal[1].average_valuation
    IN  IF discount # <<>> /\ RLt(RZero, market_value)
           /\ discount[1].amount_used # RZero
        THEN LET token_discount == RDiv(discount[1].amount_used, market_value)
                 reduced == RSub(payment.amount_to_pay, token_discount)
             IN  [payment EXCEPT !.amount_to_pay =
                     IF RLt(reduced, RZero) THEN RZero ELSE reduced]
        ELSE payment

apply_discounts_to_payment(payments, discount_consumptions, payer_balances) ==
    Vec([i \in 1..Len(payments) |->
        apply_discount(payments[i], discount_consumptions, payer_balances)])

\* a faulty variant of actual_total_cost: the amounts summed in token units
actual_total_cost_mut_token_units(final_payments, payer_balances) ==
    SumSeq(Vec([i \in 1..Len(final_payments) |-> final_payments[i].amount_to_pay]))

\* actual_total_cost of verify_sufficient_funds_after_discounts
actual_total_cost(final_payments, payer_balances) ==
    SumSeq(Vec([i \in 1..Len(final_payments) |->
              LET bal == FindByKey(payer_balances, final_payments[i].token_key)
                  market_value == IF bal = <<>> THEN RZero
                                  ELSE bal[1].average_valuation
              IN  RMul(final_payments[i].amount_to_pay, market_value)]))

\* the payments that exceed the balance of their token, in bundle order
exceeding(final_payments, payer_balances) ==
    SelectSeq(final_payments,
              LAMBDA p : LET bal == FindByKey(payer_balances, p.token_key)
                         IN  bal # <<>> /\ RLt(bal[1].balance, p.amount_to_pay))

\* the error the second loop of verify_sufficient_funds_after_discounts
\* returns for payment p
over_error(p, balance) == Insufficient(balance.symbol, p.amount_to_pay, balance.balance)

\* the second loop of verify_sufficient_funds_after_discounts: the errors of
\* the payments that exceed their balance, in bundle order
over_errors(over, payer_balances) ==
    Vec([i \in 1..Len(over) |->
        over_error(over[i], FindByKey(payer_balances, over[i].token_key)[1])])

over_balance(final_payments, payer_balances) ==
    over_errors(exceeding(final_payments, payer_balances), payer_balances)

\* a faulty variant of verify_checks: the per-token check comes first
verify_checks_mut_token_first(cost, wallet_value, over) ==
    IF over # <<>>
    THEN over[1]
    ELSE IF RLt(wallet_value, cost)
    THEN Err("Insufficient funds after vendor adjustments", "")
    ELSE Ok(cost)

\* the checks of verify_sufficient_funds_after_discounts (181-204)
verify_checks(cost, wallet_value, over) ==
    IF RLt(wallet_value, cost)
    THEN Err("Insufficient funds after vendor adjustments", "")
    ELSE IF over # <<>>
    THEN over[1]
    ELSE Ok(cost)

\* a faulty variant of verify_sufficient_funds_after_discounts: the total
\* cost check alone
verify_mut_no_token_check(final_payments, payer_balances, original_price) ==
    verify_checks(actual_total_cost(final_payments, payer_balances),
                  total_wallet_value(payer_balances), <<>>)

\* original_price only appears in the log line of the caller
verify_sufficient_funds_after_discounts(final_payments, payer_balances, original_price) ==
    verify_checks(actual_total_cost(final_payments, payer_balances),
                  total_wallet_value(payer_balances),
                  over_balance(final_payments, payer_balances))

(***************************************************************************)
(* State.                                                                  *)
(*   calc         the stages of one run of the calculator pipeline         *)
(*   payments     the transactions collection, by payment_id               *)
(*   preferences  the vendor's users.preferences Document                   *)
(*   reqs         the handlers in flight, one per request slot             *)
(*   started      number of requests admitted so far                       *)
(*   response     the HTTP response the last step sent, if it sent one     *)
(*   records      the transaction_records collection, oldest first         *)
(*   market_prices  tokens.market_valuation, by token_id                   *)
(*   cause        the bonding-curve fields of one document of causes       *)
(*   credits      the calls of credit_account_with_fee_split in flight     *)
(***************************************************************************)
VARIABLES calc, payments, preferences, reqs, started, response, records, market_prices, cause, credits

vars == <<calc, payments, preferences, reqs, started, response, records, market_prices, cause, credits>>

(***************************************************************************)
(* SpecCalc: the calculator pipeline of supplement_transaction             *)
(* (message_handler.rs 162-213) on every input of the bounded sets.        *)
(***************************************************************************)
\* wallets of two tokens and of one token
CalcWallets ==
    { <<TokenBalance(BTC, R(b1), R(v1)), TokenBalance(USD, R(b2), ROne)>> :
        b1 \in 0..MaxBalance, v1 \in 0..MaxValuation, b2 \in 0..MaxBalance }
    \cup { <<TokenBalance(BTC, R(b1), R(v1))>> :
              b1 \in 0..MaxBalance, v1 \in 0..MaxValuation }

\* a Document with the entries of `pairs` whose value is present
DocOf(pairs) ==
    LET present == { p \in pairs : p[2] # <<>> }
    IN  [k \in { p[1] : p \in present } |->
            (CHOOSE p \in present : p[1] = k)[2][1]]

OptR(n) == IF n = 0 THEN <<>> ELSE <<R(n)>>

CalcPrefs ==
    { DocOf({<<k1, OptR(p1)>>, <<"USD", OptR(p2)>>,
             <<valuation_key("BTC"), OptR(w)>>}) :
        k1 \in {"BTC", "bitcoin"}, p1 \in (-MaxPref)..MaxPref,
        p2 \in (-MaxPref)..MaxPref, w \in 0..MaxValuation }

CalcOff ==
    [stage |-> "off", balances |-> <<>>, prefs |-> EmptyDocument, price |-> RZero,
     valuations |-> <<>>, consumptions |-> <<>>, initial |-> <<>>,
     final |-> <<>>, result |-> Ok(<<>>), token_key |-> "",
     amount |-> RZero, current_tokens |-> RZero, tokens |-> RZero,
     cost |-> RZero, code |-> <<>>, normalized |-> <<>>, again |-> <<>>]

CalcInit ==
    \E b \in CalcWallets, d \in CalcPrefs, p \in 0..MaxPrice :
        calc = [CalcOff EXCEPT !.stage = "input", !.balances = b,
                               !.prefs = d, !.price = R(p)]

\* the calculator runs on its own: no handler takes a step
LifecycleIdle ==
    UNCHANGED <<cause, credits, payments, preferences, reqs, started, response, records, market_prices>>

\* message_handler.rs 162-163
CalcValuations ==
    /\ calc.stage = "input"
    /\ LET r == calculate_vendor_valuations(calc.prefs, calc.balances, calc.price)
       IN  calc' = [calc EXCEPT !.stage = "valued",
                                !.valuations = r.valuations,
                                !.consumptions = r.consumptions]
    /\ LifecycleIdle

\* message_handler.rs 169-183
CalcBundle ==
    /\ calc.stage = "valued"
    /\ LET r == calculate_payment_bundle(calc.balances, calc.valuations, calc.price)
       IN  calc' = [calc EXCEPT !.stage = IF r.ok THEN "bundled" ELSE "bundle_failed",
                                !.initial = r.value, !.result = r]
    /\ LifecycleIdle

\* message_handler.rs 186-196
CalcApply ==
    /\ calc.stage = "bundled"
    /\ calc' = [calc EXCEPT !.stage = "discounted",
                            !.final = apply_discounts_to_payment(
                                         calc.initial, calc.consumptions, calc.balances)]
    /\ LifecycleIdle

\* message_handler.rs 199-213
CalcVerify ==
    /\ calc.stage = "discounted"
    /\ LET r == verify_sufficient_funds_after_discounts(
                    calc.final, calc.balances, calc.price)
       IN  calc' = [calc EXCEPT !.stage = IF r.ok THEN "verified" ELSE "rejected",
                                !.result = r]
    /\ LifecycleIdle

CalcNext ==
    \/ CalcValuations
    \/ CalcBundle
    \/ CalcApply
    \/ CalcVerify

(***************************************************************************)
(* SpecApply: calculate_payment_bundle, apply_discounts_to_payment and     *)
(* verify_sufficient_funds_after_discounts as functions of their           *)
(* arguments: the discount consumptions are any list, and the bundle the   *)
(* discounts apply to is either the one calculate_payment_bundle returns   *)
(* or any list of payments.                                                *)
(***************************************************************************)
\* DiscountConsumption { token_key, symbol, amount_used }
Consumption(tok, amount_used) ==
    [token_key |-> tok.token_key, symbol |-> tok.symbol, amount_used |-> amount_used]

\* TokenPayment { token_key, symbol, amount_to_pay }
Payment(tok, amount_to_pay) ==
    [token_key |-> tok.token_key, symbol |-> tok.symbol, amount_to_pay |-> amount_to_pay]

\* no consumption of tok, or one of an amount among `amounts`
OptConsumption(tok, amounts) ==
    {<<>>} \cup { <<Consumption(tok, R(u))>> : u \in amounts }

ApplyConsumptions ==
    { c1 \o c2 \o c3 : c1 \in OptConsumption(BTC, (-MaxUsed)..MaxUsed),
                       c2 \in OptConsumption(USD, (-MaxUsed)..MaxUsed),
                       c3 \in OptConsumption(ETH, {1}) }

\* bundles not computed from the wallet: a token the wallet does not hold,
\* an order other than the wallet's, amounts above the balances
ApplyBundles ==
    { <<Payment(BTC, R(a1)), Payment(ETH, R(a2))>> :
        a1 \in 0..(MaxBalance + 1), a2 \in 0..1 }
    \cup { <<Payment(USD, R(a1)), Payment(BTC, R(a2))>> :
              a1 \in 0..(MaxBalance + 1), a2 \in 0..1 }

ApplyInit ==
    \E b \in CalcWallets, c \in ApplyConsumptions :
        \/ \E p \in 0..MaxPrice :
              calc = [CalcOff EXCEPT !.stage = "valued", !.balances = b,
                                     !.price = R(p), !.consumptions = c]
        \/ \E i \in ApplyBundles :
              calc = [CalcOff EXCEPT !.stage = "bundled", !.balances = b,
                                     !.consumptions = c, !.initial = i]

ApplyNext ==
    \/ CalcBundle
    \/ CalcApply
    \/ CalcVerify

(***************************************************************************)
(* Spec: the payment handlers.                                             *)
(***************************************************************************)
\* payment codes are strings of characters; a character outside ASCII is
\* written by its code point: U+00DF is the sharp s, U+FB01 the ligature fi
\* char::to_uppercase on the characters of the model: the characters of the
\* upper-case form, which are two for U+00DF and U+FB01
char_to_uppercase(c) ==
    CASE c = "a" -> <<"A">>
      [] c = "b" -> <<"B">>
      [] c = "o" -> <<"O">>
      [] c = "i" -> <<"I">>
      [] c = "l" -> <<"L">>
      [] c = "U+00DF" -> <<"S", "S">>
      [] c = "U+FB01" -> <<"F", "I">>
      [] OTHER -> <<c>>

\* str::to_uppercase
RECURSIVE to_uppercase(_)
to_uppercase(s) ==
    IF s = <<>> THEN <<>>
    ELSE char_to_uppercase(Head(s)) \o to_uppercase(Tail(s))

\* a faulty variant of normalize_char: the letter L is kept
normalize_char_mut_keeps_l(c) ==
    CASE c = "O" -> "0"
      [] c = "I" -> "1"
      [] OTHER -> c

\* the match of normalize_payment_code
normalize_char(c) ==
    CASE c = "O" -> "0"
      [] c = "I" -> "1"
      [] c = "L" -> "1"
      [] OTHER -> c

normalize_payment_code(input) ==
    LET upper == to_uppercase(input)
    IN  Vec([i \in 1..Len(upper) |-> normalize_char(upper[i])])

\* codes generate_payment_id produces (Crockford base32, upper case), in the
\* order the model draws them
PaymentIdSeq == << <<"A", "0">>, <<"B", "1">> >>
PaymentIds == { PaymentIdSeq[i] : i \in DOMAIN PaymentIdSeq }
\* what a client may put in the request path
Codes == PaymentIds \cup {<<"a", "O">>}

Vendor == "vendor"
Requesters == {Vendor, "stranger"}
Payers == {"alice", "bob"}
\* requests in flight at once
Slots == 1..2
Price == R(18)

\* payer_balances a client may send
WalletTight == <<TokenBalance(BTC, R(10), ROne), TokenBalance(USD, R(10), ROne)>>
WalletRoomy == <<TokenBalance(BTC, R(20), ROne), TokenBalance(USD, R(20), ROne)>>
Wallets == {WalletTight, WalletRoomy}

\* the vendor's preferences when the model starts: a discount budget for BTC,
\* a premium budget for USD
InitialPreferences == DocOf({<<"BTC", <<R(3)>>>>, <<"USD", <<R(-3)>>>>})

\* the market valuation of every token when the model starts
InitialMarketPrices == [k \in {BTC.token_key, USD.token_key} |-> ROne]

None == <<>>
Some(x) == <<x>>

\* Payment of create_payment (message_handler.rs 79-96)
NewPayment(price) ==
    [vendor_address |-> Vendor, price_usd |-> price, customer_address |-> None,
     status |-> "Created", vendor_valuations |-> None,
     discount_consumption |-> None, computed_payment |-> None,
     initial_payment_bundle |-> None]

Idle ==
    [pc |-> "idle", code |-> <<>>, payer |-> "", balances |-> <<>>,
     price |-> RZero, valuations |-> <<>>, consumptions |-> <<>>,
     initial |-> <<>>, final |-> <<>>, prefs |-> EmptyDocument,
     bundle |-> <<>>, todo |-> <<>>, tokens |-> {}, token |-> "",
     new_price |-> RZero]

NoResponse == [op |-> "", code |-> <<>>, kind |-> ""]
Response(op, code, kind) == [op |-> op, code |-> code, kind |-> kind]

\* a new request is taken by the first handler that is free
Free(h) == /\ reqs[h].pc = "idle"
           /\ \A g \in Slots : g < h => reqs[g].pc # "idle"
Admit == started < MaxRequests /\ started' = started + 1

\* Cause::new: nothing donated, no token purchased, 0.01 dollars per token
NewCause ==
    [amount_donated |-> RZero, tokens_purchased |-> RZero, current_price |-> ROne]

\* the calls of the model, each made once
CreditSlots == 1..2

\* a call of credit_account_with_fee_split that has not begun
CreditIdle ==
    [pc |-> "idle", amount_in_dollars |-> RZero, valid_key |-> TRUE,
     cause |-> NewCause, tokens |-> RZero, new_amount_donated |-> RZero,
     new_tokens_purchased |-> RZero, new_price |-> RZero,
     user_tokens |-> 0, platform_tokens |-> 0, user_sent |-> 0,
     platform_sent |-> 0, result |-> ""]

SpecInit ==
    /\ payments = [id \in {} |-> NewPayment(Price)]
    /\ preferences = InitialPreferences
    /\ reqs = [h \in Slots |-> Idle]
    /\ started = 0
    /\ response = NoResponse
    /\ records = <<>>
    /\ market_prices = InitialMarketPrices
    /\ cause = NewCause
    /\ credits = [h \in CreditSlots |-> CreditIdle]

\* transactions.insert_one / delete_one / update_one on one payment
PutPayment(id, p) ==
    [k \in DOMAIN payments \cup {id} |-> IF k = id THEN p ELSE payments[k]]
RemovePayment(id) == [k \in DOMAIN payments \ {id} |-> payments[k]]

(* create_payment: one insert_one.  generate_payment_id draws the id at     *)
(* random; the model draws the first one that no stored payment has.       *)
CreatePayment ==
    /\ Admit
    /\ \E i \in DOMAIN PaymentIdSeq :
          /\ PaymentIdSeq[i] \notin DOMAIN payments
          /\ \A j \in 1..(i - 1) : PaymentIdSeq[j] \in DOMAIN payments
          /\ payments' = PutPayment(PaymentIdSeq[i], NewPayment(Price))
    /\ response' = Response("create", <<>>, "Created")
    /\ UNCHANGED <<cause, credits, calc, records, market_prices, preferences, reqs>>

(* supplement_transaction, first database call: get_payment and the checks *)
(* of update_payment_with_payer (mongodb.rs 214-228), on the normalized id. *)
payer_check(id, payer) ==
    IF id \notin DOMAIN payments THEN "Payment code not found"
    ELSE IF payments[id].status = "Completed" THEN "Transaction already fulfilled"
    ELSE IF payments[id].customer_address # None
            /\ payments[id].customer_address # Some(payer)
    THEN "Payer already assigned"
    ELSE "ok"

\* the request of handler h, once update_payment_with_payer has read the
\* payment and come to `verdict`
PayerChecked(h, code, payer, balances, verdict) ==
    IF verdict = "ok"
    THEN /\ reqs' = [reqs EXCEPT ![h] =
                        [Idle EXCEPT !.pc = "assign", !.code = code,
                                     !.payer = payer, !.balances = balances]]
         /\ response' = NoResponse
    ELSE /\ reqs' = reqs
         /\ response' = Response("supplement", code, verdict)

SupplementNormalized(h, code, normalized_payment_id) ==
    \E payer \in Payers, balances \in Wallets :
        PayerChecked(h, code, payer, balances,
                     payer_check(normalized_payment_id, payer))

SupplementCheck(h) ==
    /\ Free(h)
    /\ Admit
    /\ \E code \in Codes :
          SupplementNormalized(h, code, normalize_payment_code(code))
    /\ UNCHANGED <<cause, credits, calc, records, market_prices, payments, preferences>>

(* update_payment_with_payer, find_one_and_update (mongodb.rs 230-260)     *)
update_payment_with_payer(p, payer) ==
    [p EXCEPT !.customer_address = Some(payer), !.status = "CustomerAssigned"]

PayerAssigned(h, id) ==
    IF id \in DOMAIN payments
    THEN /\ payments' = PutPayment(id,
                update_payment_with_payer(payments[id], reqs[h].payer))
         /\ reqs' = [reqs EXCEPT ![h].pc = "quote",
                                 ![h].price = payments[id].price_usd]
         /\ response' = NoResponse
    ELSE /\ payments' = payments
         /\ reqs' = [reqs EXCEPT ![h] = Idle]
         /\ response' = Response("supplement", reqs[h].code, "NotFound")

SupplementAssign(h) ==
    /\ reqs[h].pc = "assign"
    /\ PayerAssigned(h, normalize_payment_code(reqs[h].code))
    /\ UNCHANGED <<cause, credits, calc, records, market_prices, preferences, started>>

(* get_user_preferences and the calculator (message_handler.rs 150-213)    *)
QuoteResult(vv, bundle, final, cost) ==
    [ok |-> bundle.ok /\ cost.ok,
     err |-> IF ~bundle.ok THEN "Insufficient funds" ELSE cost.err,
     valuations |-> vv.valuations, consumptions |-> vv.consumptions,
     initial |-> bundle.value, final |-> final]
QuoteVerify(balances, price, vv, bundle, final) ==
    QuoteResult(vv, bundle, final,
                verify_sufficient_funds_after_discounts(final, balances, price))
QuoteApply(balances, price, vv, bundle) ==
    QuoteVerify(balances, price, vv, bundle,
                apply_discounts_to_payment(bundle.value, vv.consumptions, balances))
QuoteBundle(balances, price, vv) ==
    QuoteApply(balances, price, vv,
               calculate_payment_bundle(balances, vv.valuations, price))
Quote(prefs, balances, price) ==
    QuoteBundle(balances, price, calculate_vendor_valuations(prefs, balances, price))

Quoted(h, q) ==
    IF q.ok
    THEN /\ reqs' = [reqs EXCEPT ![h].pc = "persist",
                                 ![h].valuations = q.valuations,
                                 ![h].consumptions = q.consumptions,
                                 ![h].initial = q.initial,
                                 ![h].final = q.final]
         /\ response' = NoResponse
    ELSE /\ reqs' = [reqs EXCEPT ![h] = Idle]
         /\ response' = Response("supplement", reqs[h].code, q.err)

SupplementQuote(h) ==
    /\ reqs[h].pc = "quote"
    /\ Quoted(h, Quote(preferences, reqs[h].balances, reqs[h].price))
    /\ UNCHANGED <<cause, credits, calc, records, market_prices, payments, preferences, started>>

(* update_payment_with_calculations (mongodb.rs 668-696)                   *)
update_payment_with_calculations(p, vendor_valuations, discount_consumption, computed_payment, initial_payment_bundle) ==
    [p EXCEPT !.vendor_valuations = Some(vendor_valuations),
              !.discount_consumption = Some(discount_consumption),
              !.computed_payment = Some(computed_payment),
              !.initial_payment_bundle = Some(initial_payment_bundle),
              !.status = "Calculated"]

(* supplement_transaction, last database call, on the path parameter as    *)
(* received (message_handler.rs 220-229); then generate_unsigned_transaction *)
(* asks the wallet service, and may fail (232-243).                        *)
SupplementPersist(h) ==
    /\ reqs[h].pc = "persist"
    /\ LET id == reqs[h].code
       IN  payments' = IF id \in DOMAIN payments
                       THEN PutPayment(id, update_payment_with_calculations(
                                payments[id], reqs[h].valuations,
                                reqs[h].consumptions, reqs[h].final,
                                reqs[h].initial))
                       ELSE payments
    /\ \E built \in BOOLEAN :
          response' = Response("supplement", reqs[h].code,
                               IF built THEN "Calculated"
                               ELSE "Failed to generate transaction")
    /\ reqs' = [reqs EXCEPT ![h] = Idle]
    /\ UNCHANGED <<cause, credits, calc, records, market_prices, preferences, started>>

(* update_payment_status (mongodb.rs 735-758): $set status, whatever the   *)
(* stored status is                                                        *)
update_payment_status(p, status) == [p EXCEPT !.status = status]

(* process_signed_transaction once the path and body ids agree, the signed  *)
(* transaction parses and submit_verifiables has succeeded (a request that *)
(* fails one of these ends before any database call):                      *)
(* update_payment_status(&payment_id, Completed) (message_handler.rs       *)
(* 296-301); update_one on an id that matches no payment changes nothing   *)
(* and succeeds.  The payment_bundle of the request body is one of         *)
(* `bundles`.                                                              *)
SignComplete(h, bundles) ==
    /\ Free(h)
    /\ Admit
    /\ \E code \in Codes, payment_bundle \in bundles :
          /\ Len(records) + Len(payment_bundle) <= MaxRecords
          /\ payments' = IF code \in DOMAIN payments
                         THEN PutPayment(code,
                                 update_payment_status(payments[code], "Completed"))
                         ELSE payments
          /\ reqs' = [reqs EXCEPT ![h] = [Idle EXCEPT !.pc = "getpay", !.code = code,
                                                      !.bundle = payment_bundle]]
    /\ response' = NoResponse
    /\ UNCHANGED <<cause, credits, calc, records, market_prices, preferences>>

(* get_payment_by_id (message_handler.rs 310-327)                          *)
SignGetPayment(h) ==
    /\ reqs[h].pc = "getpay"
    /\ LET id == reqs[h].code
       IN  IF id \in DOMAIN payments /\ payments[id].discount_consumption # None
           THEN /\ reqs' = [reqs EXCEPT
                              ![h].pc = "readprefs",
                              ![h].consumptions = payments[id].discount_consumption[1]]
                /\ response' = NoResponse
           ELSE /\ reqs' = [reqs EXCEPT ![h].pc = "getbundle"]
                /\ response' = NoResponse
    /\ UNCHANGED <<cause, credits, calc, records, market_prices, payments, preferences, started>>

\* the new value of one preference (mongodb.rs 626-639)
new_value(current_float, amount_used) ==
    IF RLt(RZero, current_float)
    THEN RMax(RSub(current_float, amount_used), RZero)
    ELSE IF RLt(current_float, RZero)
    THEN RMin(RAdd(current_float, amount_used), RZero)
    ELSE RZero

\* the for loop of update_user_preferences_after_payment (mongodb.rs 615-647)
RECURSIVE apply_consumptions(_, _)
apply_consumptions(updated_prefs, discount_consumptions) ==
    IF discount_consumptions = <<>> THEN updated_prefs
    ELSE LET consumption == Head(discount_consumptions)
             token_symbol == consumption.symbol
             next == IF RLt(RZero, consumption.amount_used)
                        /\ token_symbol \in DOMAIN updated_prefs
                     THEN DocInsert(updated_prefs, token_symbol,
                                    new_value(updated_prefs[token_symbol],
                                              consumption.amount_used))
                     ELSE updated_prefs
         IN  apply_consumptions(next, Tail(discount_consumptions))

(* update_user_preferences_after_payment: get_user_preferences (611)       *)
SignReadPrefs(h) ==
    /\ reqs[h].pc = "readprefs"
    /\ reqs' = [reqs EXCEPT ![h].pc = "writeprefs",
                            ![h].prefs = apply_consumptions(preferences,
                                                            reqs[h].consumptions)]
    /\ response' = NoResponse
    /\ UNCHANGED <<cause, credits, calc, records, market_prices, payments, preferences, started>>

(* update_user_preferences_after_payment: users.update_one with the whole  *)
(* Document (652-664).                                                     *)
SignWritePrefs(h) ==
    /\ reqs[h].pc = "writeprefs"
    /\ preferences' = reqs[h].prefs
    /\ reqs' = [reqs EXCEPT ![h].pc = "getbundle", ![h].consumptions = <<>>,
                            ![h].prefs = EmptyDocument]
    /\ response' = NoResponse
    /\ UNCHANGED <<cause, credits, calc, records, market_prices, payments, started>>

\* TransactionRecord { token_key, symbol, amount_paid, effective_valuation,
\* timestamp, payment_id }: the timestamp is set when the record is inserted
TransactionRecord(token_payment, effective_valuation, payment_id) ==
    [token_key |-> token_payment.token_key, symbol |-> token_payment.symbol,
     amount_paid |-> token_payment.amount_to_pay,
     effective_valuation |-> effective_valuation, timestamp |-> 0,
     payment_id |-> payment_id]

\* timestamp: Utc::now() of a handler that runs alone: later than the
\* timestamp of every record stored
UtcNow == Len(records) + 1

\* iter().find(|x| x.symbol == symbol): the first match, <<>> when none
FindBySymbol(seq, symbol) ==
    LET hits == SelectSeq(seq, LAMBDA x : x.symbol = symbol)
    IN  IF hits = <<>> THEN <<>> ELSE <<hits[1]>>

\* the body of the loop of message_handler.rs 345-354 for one payment of the
\* request: a (symbol, effective_val) pair, or nothing
effective_valuation_of(final_payment, initial_bundle) ==
    LET initial_payment == FindByKey(initial_bundle, final_payment.token_key)
    IN  IF initial_payment # <<>> /\ RLt(RZero, initial_payment[1].amount_to_pay)
        THEN << [symbol |-> final_payment.symbol,
                 valuation |-> RDiv(final_payment.amount_to_pay,
                                    initial_payment[1].amount_to_pay)] >>
        ELSE <<>>

\* the effective_valuations of message_handler.rs 343-354
RECURSIVE effective_valuations(_, _)
effective_valuations(payment_bundle, initial_bundle) ==
    IF payment_bundle = <<>> THEN <<>>
    ELSE effective_valuation_of(Head(payment_bundle), initial_bundle)
         \o effective_valuations(Tail(payment_bundle), initial_bundle)

\* find by symbol, map to the valuation, unwrap_or(1.0)
valuation_or_one(valuations, symbol) ==
    LET hit == FindBySymbol(valuations, symbol)
    IN  IF hit = <<>> THEN ROne ELSE hit[1].valuation

\* the records the three create_transaction_records_* helpers build, in the
\* order they insert them
create_transaction_records_with_effective_valuations(payment_bundle, valuations, payment_id) ==
    Vec([i \in 1..Len(payment_bundle) |->
        TransactionRecord(payment_bundle[i],
                          valuation_or_one(valuations, payment_bundle[i].symbol),
                          payment_id)])

create_transaction_records_with_vendor_valuations(payment_bundle, vendor_valuations, payment_id) ==
    Vec([i \in 1..Len(payment_bundle) |->
        TransactionRecord(payment_bundle[i],
                          valuation_or_one(vendor_valuations, payment_bundle[i].symbol),
                          payment_id)])

create_transaction_records_simple(payment_bundle, payment_id) ==
    Vec([i \in 1..Len(payment_bundle) |->
        TransactionRecord(payment_bundle[i], ROne, payment_id)])

\* the match of message_handler.rs 340-398 on the payment read
records_to_create(payment_bundle, payment_id) ==
    IF payment_id \notin DOMAIN payments
    THEN create_transaction_records_simple(payment_bundle, payment_id)
    ELSE IF payments[payment_id].initial_payment_bundle # None
    THEN create_transaction_records_with_effective_valuations(
             payment_bundle,
             effective_valuations(payment_bundle,
                                  payments[payment_id].initial_payment_bundle[1]),
             payment_id)
    ELSE IF payments[payment_id].vendor_valuations # None
    THEN create_transaction_records_with_vendor_valuations(
             payment_bundle, payments[payment_id].vendor_valuations[1], payment_id)
    ELSE create_transaction_records_simple(payment_bundle, payment_id)

(* process_signed_transaction: the second get_payment_by_id                *)
(* (message_handler.rs 340).  With an empty payment_bundle no record is    *)
(* inserted and no market price is read: the handler responds (410-424).   *)
SignGetBundle(h) ==
    /\ reqs[h].pc = "getbundle"
    /\ IF reqs[h].bundle = <<>>
       THEN /\ reqs' = [reqs EXCEPT ![h] = Idle]
            /\ response' = Response("sign", reqs[h].code, "Completed")
       ELSE /\ reqs' = [reqs EXCEPT ![h].pc = "record",
                                    ![h].todo = records_to_create(reqs[h].bundle,
                                                                  reqs[h].code)]
            /\ response' = NoResponse
    /\ UNCHANGED <<cause, credits, calc, records, market_prices, payments, preferences, started>>

\* HashSet<String> of the token keys of the bundle (message_handler.rs 716-719)
unique_tokens(payment_bundle) ==
    { payment_bundle[i].token_key : i \in DOMAIN payment_bundle }

(* create_transaction_record (mongodb.rs 785-793): one insert_one, which   *)
(* may fail; the helper logs the failure and goes on to the next token     *)
(* (message_handler.rs 803-808).                                           *)
SignRecord(h) ==
    /\ reqs[h].pc = "record"
    /\ \E inserted \in BOOLEAN :
          records' = IF inserted
                     THEN Append(records, [Head(reqs[h].todo) EXCEPT
                                              !.timestamp = UtcNow])
                     ELSE records
    /\ reqs' = IF Tail(reqs[h].todo) # <<>>
               THEN [reqs EXCEPT ![h].todo = Tail(reqs[h].todo)]
               ELSE [reqs EXCEPT ![h].pc = "prices", ![h].todo = <<>>,
                                 ![h].tokens = unique_tokens(reqs[h].bundle)]
    /\ response' = NoResponse
    /\ UNCHANGED <<cause, credits, calc, market_prices, payments, preferences, started>>

\* the literal 20 of calculate_new_market_price
RecentLimit == 20

\* one step of records.sort_by(|a, b| b.timestamp.cmp(&a.timestamp)): r goes
\* behind every record of `sorted` that is not older than r (the sort is
\* stable: records of one timestamp keep the order of the cursor)
RECURSIVE sort_insert(_, _)
sort_insert(sorted, r) ==
    IF sorted = <<>> THEN <<r>>
    ELSE IF Head(sorted).timestamp >= r.timestamp
    THEN <<Head(sorted)>> \o sort_insert(Tail(sorted), r)
    ELSE <<r>> \o sorted

RECURSIVE sort_from(_, _, _)
sort_from(found, i, sorted) ==
    IF i > Len(found) THEN sorted
    ELSE sort_from(found, i + 1, sort_insert(sorted, found[i]))

\* records.sort_by(...) of mongodb.rs 807: newest first
sort_by_timestamp(found) == sort_from(found, 1, <<>>)

\* records.truncate(limit)
truncate(found, limit) ==
    IF Len(found) > limit THEN SubSeq(found, 1, limit) ELSE found

\* a faulty variant of get_recent_transactions_for_token: the records in the
\* order of the cursor, not sorted
get_recent_transactions_for_token_mut_unsorted(token_key, limit) ==
    truncate(SelectSeq(records, LAMBDA r : r.token_key = token_key), limit)

\* get_recent_transactions_for_token (mongodb.rs 795-811): the records of the
\* token, newest first, at most `limit` of them
get_recent_transactions_for_token(token_key, limit) ==
    truncate(sort_by_timestamp(
                 SelectSeq(records, LAMBDA r : r.token_key = token_key)), limit)

\* weight[i] = (20 - i) / 20, i from 0
weight(i) == Norm(20 - i, 20)

weighted_sum(recent) ==
    SumSeq(Vec([i \in 1..Len(recent) |->
        RMul(RMul(recent[i].effective_valuation, recent[i].amount_paid),
             weight(i - 1))]))

weight_sum(recent) ==
    SumSeq(Vec([i \in 1..Len(recent) |->
        RMul(recent[i].amount_paid, weight(i - 1))]))

\* message_handler.rs 766-773
new_market_price(weighted, weights) ==
    IF weights = RZero
    THEN Err("Zero weight sum in market price calculation", "")
    ELSE Ok(RDiv(weighted, weights))

\* a faulty variant of calculate_new_market_price: a price of 0 for a token
\* without records
calculate_new_market_price_mut_zero_price(recent) ==
    IF recent = <<>> THEN Ok(RZero)
    ELSE new_market_price(weighted_sum(recent), weight_sum(recent))

\* calculate_new_market_price on the records read (message_handler.rs 748-773)
calculate_new_market_price(recent) ==
    IF recent = <<>> THEN Err("No transaction records found for token", "")
    ELSE new_market_price(weighted_sum(recent), weight_sum(recent))

\* the loop of update_market_prices is done with token_key: the next token,
\* or the response when none is left (message_handler.rs 410-424)
TokenDone(h, token_key) ==
    IF reqs[h].tokens = {token_key}
    THEN /\ reqs' = [reqs EXCEPT ![h] = Idle]
         /\ response' = Response("sign", reqs[h].code, "Completed")
    ELSE /\ reqs' = [reqs EXCEPT ![h].pc = "prices",
                                 ![h].tokens = reqs[h].tokens \ {token_key},
                                 ![h].token = "", ![h].new_price = RZero]
         /\ response' = NoResponse

\* the match of update_market_prices on the result for token_key (725-735)
PriceCalculated(h, token_key, new_price) ==
    IF new_price.ok
    THEN /\ reqs' = [reqs EXCEPT ![h].pc = "pricewrite", ![h].token = token_key,
                                 ![h].new_price = new_price.value]
         /\ response' = NoResponse
    ELSE TokenDone(h, token_key)

(* update_market_prices: get_recent_transactions_for_token for one of the  *)
(* unique tokens, in the order the HashSet yields them, and the price      *)
(* computed from the records read                                          *)
SignPriceRead(h) ==
    /\ reqs[h].pc = "prices"
    /\ \E token_key \in reqs[h].tokens :
          PriceCalculated(h, token_key,
              calculate_new_market_price(
                  get_recent_transactions_for_token(token_key, RecentLimit)))
    /\ UNCHANGED <<cause, credits, calc, records, market_prices, payments, preferences, started>>

\* update_token_market_price (mongodb.rs 813-831): update_one by token_id
update_token_market_price(token_key, new_price) ==
    IF token_key \in DOMAIN market_prices
    THEN [market_prices EXCEPT ![token_key] = new_price]
    ELSE market_prices

SignPriceWrite(h) ==
    /\ reqs[h].pc = "pricewrite"
    /\ market_prices' = update_token_market_price(reqs[h].token, reqs[h].new_price)
    /\ TokenDone(h, reqs[h].token)
    /\ UNCHANGED <<cause, credits, calc, records, payments, preferences, started>>

(* delete_payment: get_payment_by_id and the checks (mongodb.rs 709-719)   *)
delete_check(id, vendor_address) ==
    IF id \notin DOMAIN payments THEN "NotFound"
    ELSE IF payments[id].vendor_address # vendor_address
    THEN "Only the vendor can cancel this payment"
    ELSE IF payments[id].status = "Completed"
    THEN "Cannot cancel completed payment"
    ELSE "ok"

DeleteCheck(h) ==
    /\ Free(h)
    /\ Admit
    /\ \E code \in Codes, vendor_address \in Requesters :
          LET verdict == delete_check(code, vendor_address)
          IN  IF verdict = "ok"
              THEN /\ reqs' = [reqs EXCEPT ![h] =
                                  [Idle EXCEPT !.pc = "delete", !.code = code]]
                   /\ response' = NoResponse
              ELSE /\ reqs' = reqs
                   /\ response' = Response("delete", code, verdict)
    /\ UNCHANGED <<cause, credits, calc, records, market_prices, payments, preferences>>

(* delete_payment: delete_one (mongodb.rs 722-731)                         *)
DeleteRemove(h) ==
    /\ reqs[h].pc = "delete"
    /\ LET id == reqs[h].code
       IN  IF id \in DOMAIN payments
           THEN /\ payments' = RemovePayment(id)
                /\ response' = Response("delete", id, "Payment cancelled successfully")
           ELSE /\ payments' = payments
                /\ response' = Response("delete", id, "NotFound")
    /\ reqs' = [reqs EXCEPT ![h] = Idle]
    /\ UNCHANGED <<cause, credits, calc, records, market_prices, preferences, started>>

\* Spec: two handlers in flight, sign requests with an empty payment_bundle
EmptyBundles == {<<>>}

Next ==
    \/ CreatePayment
    \/ \E h \in Slots :
          \/ SupplementCheck(h)
          \/ SupplementAssign(h)
          \/ SupplementQuote(h)
          \/ SupplementPersist(h)
          \/ SignComplete(h, EmptyBundles)
          \/ SignGetPayment(h)
          \/ SignReadPrefs(h)
          \/ SignWritePrefs(h)
          \/ SignGetBundle(h)
          \/ DeleteCheck(h)
          \/ DeleteRemove(h)

(***************************************************************************)
(* SpecLedger: the handlers that lead to transaction records and market    *)
(* prices (create, supplement, sign), one request at a time, the sign      *)
(* requests carrying a payment_bundle.                                     *)
(***************************************************************************)
LedgerSlots == {1}

\* the bundles a client signs: the computed_payment of a stored payment, as
\* the supplement response gave it, or amounts of the client's own
StoredBundles ==
    { payments[id].computed_payment[1] :
        id \in { k \in DOMAIN payments : payments[k].computed_payment # None } }
OtherBundles ==
    { <<Payment(BTC, ROne), Payment(USD, RZero)>>, <<Payment(BTC, ROne)>> }
ClientBundles == StoredBundles \cup OtherBundles

LedgerNext ==
    \/ CreatePayment
    \/ \E h \in LedgerSlots :
          \/ SupplementCheck(h)
          \/ SupplementAssign(h)
          \/ SupplementQuote(h)
          \/ SupplementPersist(h)
          \/ SignComplete(h, ClientBundles)
          \/ SignGetPayment(h)
          \/ SignReadPrefs(h)
          \/ SignWritePrefs(h)
          \/ SignGetBundle(h)
          \/ SignRecord(h)
          \/ SignPriceRead(h)
          \/ SignPriceWrite(h)


(***************************************************************************)
(* The bonding curve (utils/bonding_curve.rs).  Money is counted in units  *)
(* of 1,000 dollars and tokens in units of 100,000 tokens, so that the     *)
(* base_price of 0.01 dollars per token and the slope of 0.0000001 dollars *)
(* per token per token are both 1 and the exact arithmetic stays within    *)
(* the integers of the checker; the formulas do not depend on the units.   *)
(***************************************************************************)
\* amounts of money and of tokens in the units of the model
Dollars(n) == Norm(n, 1000)
Tokens(n) == Norm(n, 100000)

\* BondingCurve::new(): 0.01 dollars per token, rising 0.0000001 per token
BondingCurve == [base_price |-> ROne, slope |-> ROne]

\* BondingCurve::calculate_price
calculate_price(curve, tokens_purchased) ==
    RAdd(curve.base_price, RMul(curve.slope, tokens_purchased))

\* the result of calculate_tokens_for_amount from the current price and the
\* first estimate of the tokens (bonding_curve.rs 27-30)
tokens_at_average(curve, amount, current_price, tokens) ==
    LET end_price == RAdd(current_price, RMul(curve.slope, tokens))
        avg_price == RDiv(RAdd(current_price, end_price), R(2))
    IN  RDiv(amount, avg_price)

\* BondingCurve::calculate_tokens_for_amount
calculate_tokens_for_amount(curve, amount, current_tokens_purchased) ==
    LET current_price == RAdd(curve.base_price,
                              RMul(curve.slope, current_tokens_purchased))
    IN  tokens_at_average(curve, amount, current_price,
                          RDiv(amount, current_price))

\* calculate_amount_for_tokens of bin/test_bonding_curve.rs: the cost of
\* `tokens` tokens on the curve, by the trapezoid
calculate_amount_for_tokens(curve, tokens, current_tokens) ==
    LET p0 == calculate_price(curve, current_tokens)
        p1 == calculate_price(curve, RAdd(current_tokens, tokens))
    IN  RMul(RDiv(RAdd(p0, p1), R(2)), tokens)

(***************************************************************************)
(* credit_account_with_fee_split (webhook_service.rs 79-177) for deposits  *)
(* to one cause.  The database calls and the transfers of the token        *)
(* service are the steps; a failure of the database itself is not           *)
(* modelled.                                                               *)
(***************************************************************************)
\* total_amount of a deposit, in cents: 52.63 and 105.26 dollars, of which 50
\* and 100 dollars go to the cause
DepositAmounts == {5263, 10526}

\* f64::round of a non-negative number: halves away from zero
Round(x) == (2 * x[1] + x[2]) \div (2 * x[2])

\* webhook_service.rs 92: (total_amount_u64 as f64 * 0.05).round() as u64
platform_cash_fee(total_amount) == Round(RMul(R(total_amount), <<5, 100>>))

\* webhook_service.rs 93-97: amount_to_cause as f64 / 100.0
amount_in_dollars(total_amount) ==
    Norm(total_amount - platform_cash_fee(total_amount), 100 * 1000)

\* webhook_service.rs 137: tokens_minted.round() as u64, in whole tokens
tokens_minted_u64(tokens) == Round(RMul(tokens, R(100000)))

\* webhook_service.rs 140: (tokens_minted_u64 as f64 * (5.0 / 95.0)).round()
platform_tokens(minted) == Round(RMul(R(minted), <<5, 95>>))

\* the values computed from the cause read (webhook_service.rs 103-109, 137-141)
Credited(h, dollars, valid_key, read, tokens) ==
    [CreditIdle EXCEPT
        !.pc = "update", !.amount_in_dollars = dollars, !.valid_key = valid_key,
        !.cause = read, !.tokens = tokens,
        !.new_amount_donated = RAdd(read.amount_donated, dollars),
        !.new_tokens_purchased = RAdd(read.tokens_purchased, tokens),
        !.new_price = calculate_price(BondingCurve,
                                      RAdd(read.tokens_purchased, tokens)),
        !.user_tokens = tokens_minted_u64(tokens)
                           - platform_tokens(tokens_minted_u64(tokens)),
        !.platform_tokens = platform_tokens(tokens_minted_u64(tokens))]

\* a call begins: get_cause_by_token_symbol (webhook_service.rs 100-102) and
\* the computation on the document read
CreditLookup(h) ==
    /\ credits[h].pc = "idle"
    /\ \A g \in CreditSlots : g < h => credits[g].pc # "idle"
    /\ \E total_amount \in DepositAmounts, valid_key \in BOOLEAN :
          credits' = [credits EXCEPT ![h] =
              Credited(h, amount_in_dollars(total_amount), valid_key, cause,
                       calculate_tokens_for_amount(
                           BondingCurve, amount_in_dollars(total_amount),
                           cause.tokens_purchased))]
    /\ UNCHANGED <<cause, calc, payments, preferences, reqs, started, response, records, market_prices>>

\* update_cause_bonding_curve (mongodb.rs 490-510): $set of the three fields
update_cause_bonding_curve(doc, amount_donated, tokens_purchased, current_price) ==
    [doc EXCEPT !.amount_donated = amount_donated,
                !.tokens_purchased = tokens_purchased,
                !.current_price = current_price]

\* webhook_service.rs 111-116
CreditUpdate(h) ==
    /\ credits[h].pc = "update"
    /\ cause' = update_cause_bonding_curve(cause, credits[h].new_amount_donated,
                                           credits[h].new_tokens_purchased,
                                           credits[h].new_price)
    /\ credits' = [credits EXCEPT ![h].pc = "transfer_user"]
    /\ UNCHANGED <<calc, payments, preferences, reqs, started, response, records, market_prices>>

\* the call returns
Returned(h, result) ==
    credits' = [credits EXCEPT ![h].pc = "done", ![h].result = result]

\* Ed25519PubKey::from_str(user_address) and the transfer to the user
\* (webhook_service.rs 144-157)
CreditTransferUser(h) ==
    /\ credits[h].pc = "transfer_user"
    /\ IF ~credits[h].valid_key THEN Returned(h, "InvalidPublicKey")
       ELSE \E transferred \in BOOLEAN :
               IF transferred
               THEN credits' = [credits EXCEPT
                                   ![h].pc = "transfer_platform",
                                   ![h].user_sent = credits[h].user_tokens]
               ELSE Returned(h, "TokenTransferError")
    /\ UNCHANGED <<cause, calc, payments, preferences, reqs, started, response, records, market_prices>>

\* the transfer of the platform's tokens (webhook_service.rs 159-176)
CreditTransferPlatform(h) ==
    /\ credits[h].pc = "transfer_platform"
    /\ \E transferred \in BOOLEAN :
          IF transferred
          THEN credits' = [credits EXCEPT
                              ![h].pc = "done", ![h].result = "Ok",
                              ![h].platform_sent = credits[h].platform_tokens]
          ELSE Returned(h, "TokenTransferError")
    /\ UNCHANGED <<cause, calc, payments, preferences, reqs, started, response, records, market_prices>>

CreditNext ==
    \E h \in CreditSlots :
        \/ CreditLookup(h)
        \/ CreditUpdate(h)
        \/ CreditTransferUser(h)
        \/ CreditTransferPlatform(h)

(***************************************************************************)
(* SpecCurve: calculate_tokens_for_amount on amounts of 25 to 200 dollars  *)
(* at 0 to 200,000 tokens purchased, and on the 95 dollars that a deposit  *)
(* of 100 dollars leaves for the cause, at 0 tokens.                       *)
(***************************************************************************)
CurveInputs ==
    { <<Dollars(25 * n), Tokens(50000 * k)>> :
        n \in 1..MaxAmount, k \in 0..MaxTokens }
    \cup { <<Dollars(95), Tokens(0)>> }

CurveInit ==
    \E i \in CurveInputs :
        calc = [CalcOff EXCEPT !.stage = "curve", !.amount = i[1],
                               !.current_tokens = i[2]]

\* webhook_service.rs 105
CurveTokens ==
    /\ calc.stage = "curve"
    /\ calc' = [calc EXCEPT !.stage = "minted",
                            !.tokens = calculate_tokens_for_amount(
                                          BondingCurve, calc.amount,
                                          calc.current_tokens)]
    /\ LifecycleIdle

\* the cost on the curve of the tokens returned
CurveCost ==
    /\ calc.stage = "minted"
    /\ calc' = [calc EXCEPT !.stage = "costed",
                            !.cost = calculate_amount_for_tokens(
                                        BondingCurve, calc.tokens,
                                        calc.current_tokens)]
    /\ LifecycleIdle

CurveNext ==
    \/ CurveTokens
    \/ CurveCost

(***************************************************************************)
(* SpecCode: normalize_payment_code on every string a client may put in    *)
(* the request path, and on its own output.                                *)
(***************************************************************************)
\* ASCII letters in both cases, among them O, I and L, digits, a character
\* that is no letter, and two characters outside ASCII
AsciiChars == {"a", "B", "o", "O", "i", "L", "0", "-"}
CodeChars == AsciiChars \cup {"U+00DF", "U+FB01"}

RECURSIVE CodesOfLen(_)
CodesOfLen(n) ==
    IF n = 0 THEN {<<>>}
    ELSE { Append(c, ch) : c \in CodesOfLen(n - 1), ch \in CodeChars }

CodeInputs == UNION { CodesOfLen(n) : n \in 0..MaxCodeLen }

CodeInit ==
    \E c \in CodeInputs : calc = [CalcOff EXCEPT !.stage = "code", !.code = c]

\* normalize_payment_code(&payment_id) (message_handler.rs 124)
CodeNormalize ==
    /\ calc.stage = "code"
    /\ calc' = [calc EXCEPT !.stage = "normalized",
                            !.normalized = normalize_payment_code(calc.code)]
    /\ LifecycleIdle

\* normalize_payment_code on a code it has returned
CodeNormalizeAgain ==
    /\ calc.stage = "normalized"
    /\ calc' = [calc EXCEPT !.stage = "renormalized",
                            !.again = normalize_payment_code(calc.normalized)]
    /\ LifecycleIdle

CodeNext ==
    \/ CodeNormalize
    \/ CodeNormalizeAgain

(***************************************************************************)
(* SpecWindow: get_recent_transactions_for_token and the weights of        *)
(* calculate_new_market_price on collections of more than 20 records,     *)
(* inserted by handlers that run concurrently: a record is stamped before  *)
(* it is inserted, so a record may be stored behind a newer one.           *)
(***************************************************************************)
\* the latest timestamp among the first k records, 0 when there is none
RECURSIVE NewestOf(_, _)
NewestOf(stored, k) ==
    IF k = 0 THEN 0
    ELSE LET before == NewestOf(stored, k - 1)
         IN  IF stored[k].timestamp > before THEN stored[k].timestamp ELSE before

Newest(stored) == NewestOf(stored, Len(stored))

\* the timestamps a new record may carry: later than all stored, equal to the
\* latest, or one before it
Timestamps ==
    { t \in { Newest(records) + 1, Newest(records), Newest(records) - 1 } : t >= 1 }

\* the record is of another token than BTC, or is not later than all records
\* stored before it
Skewed(r, before) ==
    \/ r.token_key # BTC.token_key
    \/ r.timestamp # before + 1

\* the number of such records among those from position k on, `before` the
\* latest timestamp ahead of k
RECURSIVE SkewFrom(_, _, _)
SkewFrom(stored, k, before) ==
    IF k > Len(stored) THEN 0
    ELSE (IF Skewed(stored[k], before) THEN 1 ELSE 0)
         + SkewFrom(stored, k + 1,
                    IF stored[k].timestamp > before THEN stored[k].timestamp
                    ELSE before)

SkewCount(stored) == SkewFrom(stored, 1, 0)

\* create_transaction_record (mongodb.rs 785-793) by any handler
WindowInsert ==
    /\ calc.stage = "off"
    /\ Len(records) < MaxStored
    /\ \E tok \in {BTC, USD}, t \in Timestamps :
          LET r == [TransactionRecord(Payment(tok, ROne), ROne, PaymentIdSeq[1])
                       EXCEPT !.timestamp = t]
          IN  /\ SkewCount(Append(records, r)) <= MaxSkew
              /\ records' = Append(records, r)
    /\ UNCHANGED <<cause, credits, calc, market_prices, payments, preferences, reqs, started, response>>

\* calculate_new_market_price of one token (message_handler.rs 741-774)
WindowRead ==
    /\ calc.stage = "off"
    /\ \E tok \in {BTC, USD} :
          LET recent == get_recent_transactions_for_token(tok.token_key, RecentLimit)
          IN  calc' = [CalcOff EXCEPT !.stage = "window",
                                      !.token_key = tok.token_key,
                                      !.final = recent,
                                      !.result = calculate_new_market_price(recent)]
    /\ UNCHANGED <<cause, credits, records, market_prices, payments, preferences, reqs, started, response>>

WindowNext ==
    \/ WindowInsert
    \/ WindowRead

Init == SpecInit /\ calc = CalcOff

SpecWindow == Init /\ [][WindowNext]_vars

SpecCredit == Init /\ [][CreditNext]_vars

InitCode == SpecInit /\ CodeInit

SpecCode == InitCode /\ [][CodeNext]_vars

InitCurve == SpecInit /\ CurveInit

SpecCurve == InitCurve /\ [][CurveNext]_vars

Spec == Init /\ [][Next]_vars

SpecLedger == Init /\ [][LedgerNext]_vars

InitCalc == SpecInit /\ CalcInit

SpecCalc == InitCalc /\ [][CalcNext]_vars

InitApply == SpecInit /\ ApplyInit

SpecApply == InitApply /\ [][ApplyNext]_vars

(***************************************************************************)
(* Properties of the payment lifecycle (Spec).                             *)
(***************************************************************************)
StatusRank(status) ==
    CASE status = "Created" -> 0
      [] status = "CustomerAssigned" -> 1
      [] status = "Calculated" -> 2
      [] status = "Completed" -> 3

\* C1: a payment's stored status never moves backward in the order
\* Created < CustomerAssigned < Calculated < Completed, in any step of any
\* handler; in particular a Completed payment keeps its status.
C1_StatusNeverRegresses ==
    [][\A id \in DOMAIN payments \cap DOMAIN payments' :
          StatusRank(payments'[id].status) >= StatusRank(payments[id].status)]_vars

\* C2: a step that sets a payment's stored status to Completed finds it
\* Calculated: never Created or CustomerAssigned.
C2_CompletedOnlyFromCalculated ==
    [][\A id \in DOMAIN payments \cap DOMAIN payments' :
          (payments[id].status # "Completed" /\ payments'[id].status = "Completed")
             => payments[id].status = "Calculated"]_vars

\* C3: no step removes a payment whose stored status is Completed, however
\* delete_payment and process_signed_transaction interleave; and a delete
\* that answers with a refusal leaves the payments as they were.
C3_CompletedNeverDeleted ==
    [][/\ \A id \in DOMAIN payments :
             payments[id].status = "Completed" => id \in DOMAIN payments'
       /\ (response'.op = "delete"
           /\ response'.kind # "Payment cancelled successfully")
             => payments' = payments]_vars

\* the balance entry of a token among the balances a payer supplied
BalanceOf(balances, token_key) ==
    CHOOSE j \in DOMAIN balances : balances[j].token_key = token_key

\* sum of amount_to_pay x market valuation over a bundle
BundleCost(bundle, balances) ==
    SumSeq(Vec([i \in DOMAIN bundle |->
        RMul(bundle[i].amount_to_pay,
             balances[BalanceOf(balances, bundle[i].token_key)].average_valuation)]))

WithinFunds(bundle, balances) ==
    /\ \A i \in DOMAIN bundle :
          /\ \E j \in DOMAIN balances : balances[j].token_key = bundle[i].token_key
          /\ RLe(bundle[i].amount_to_pay,
                 balances[BalanceOf(balances, bundle[i].token_key)].balance)
    /\ RLe(BundleCost(bundle, balances), total_wallet_value(balances))

\* some entry of `final` was raised by a premium above the payer's balance
PremiumOver(initial, final, balances) ==
    \E i \in DOMAIN final :
        /\ RLt(initial[i].amount_to_pay, final[i].amount_to_pay)
        /\ RLt(balances[BalanceOf(balances, final[i].token_key)].balance,
               final[i].amount_to_pay)

PremiumOverBundle(bundle, consumptions, balances) ==
    /\ bundle.ok
    /\ PremiumOver(bundle.value,
                   apply_discounts_to_payment(bundle.value, consumptions, balances),
                   balances)

PremiumOverBalance(prefs, balances, price) ==
    PremiumOverBundle(calculate_payment_bundle(balances, <<>>, price),
                      calculate_vendor_valuations(prefs, balances, price).consumptions,
                      balances)

\* C4: the step of supplement_transaction that persists a computed bundle
\* stores, with status Calculated, a bundle whose every entry is at most the
\* payer's supplied balance of that token and whose total cost at market
\* valuation is at most the total wallet value; and a quote in which a
\* premium raises a token's amount above its balance ends the request with
\* an error, the payments untouched.
C4_PersistedBundleWithinFunds ==
    [][\A h \in Slots :
          /\ (reqs[h].pc = "persist" /\ reqs'[h].pc = "idle"
              /\ reqs[h].code \in DOMAIN payments)
                => /\ reqs[h].code \in DOMAIN payments'
                   /\ payments'[reqs[h].code].status = "Calculated"
                   /\ payments'[reqs[h].code].computed_payment # None
                   /\ WithinFunds(payments'[reqs[h].code].computed_payment[1],
                                  reqs[h].balances)
          /\ (reqs[h].pc = "quote" /\ reqs'[h].pc # "quote"
              /\ PremiumOverBalance(preferences, reqs[h].balances, reqs[h].price))
                => /\ reqs'[h].pc = "idle"
                   /\ response'.op = "supplement"
                   /\ response'.kind \in
                        {"Insufficient", "Insufficient funds after vendor adjustments"}
                   /\ payments' = payments]_vars

\* C4 witness: a stored Calculated payment whose computed bundle holds an
\* entry that a premium raised above its amount in the initial bundle
C4_PremiumBundlePersisted ==
    \E id \in DOMAIN payments :
        /\ payments[id].status = "Calculated"
        /\ payments[id].computed_payment # None
        /\ \E i \in DOMAIN payments[id].computed_payment[1] :
              RLt(payments[id].initial_payment_bundle[1][i].amount_to_pay,
                  payments[id].computed_payment[1][i].amount_to_pay)

\* a budget moved toward zero by |amount|, stopping at zero
TowardZero(budget, amount) ==
    IF RLt(RZero, budget) THEN RMax(RSub(budget, RAbs(amount)), RZero)
    ELSE IF RLt(budget, RZero) THEN RMin(RAdd(budget, RAbs(amount)), RZero)
    ELSE RZero

\* handler h writes the vendor's preferences in this step
WritesPreferences(h) == reqs[h].pc = "writeprefs" /\ reqs'[h].pc = "getbundle"

\* C5: when a completing payment writes the vendor's preferences, every token
\* with a nonzero recorded amount_used, discount or premium, has its stored
\* budget moved toward zero by |amount_used|, stopping at zero.
C5_BudgetMovesTowardZero ==
    [][\A h \in Slots : WritesPreferences(h) =>
          \A i \in DOMAIN reqs[h].consumptions :
             (/\ reqs[h].consumptions[i].amount_used # RZero
              /\ reqs[h].consumptions[i].symbol \in DOMAIN preferences)
                => preferences'[reqs[h].consumptions[i].symbol]
                     = TowardZero(preferences[reqs[h].consumptions[i].symbol],
                                  reqs[h].consumptions[i].amount_used)]_vars

\* every payment id of the model is stored, Completed, with a recorded
\* discount consumption
AllPaymentsCompleted ==
    \A id \in PaymentIds :
        /\ id \in DOMAIN payments
        /\ payments[id].status = "Completed"
        /\ payments[id].discount_consumption # None

\* C6: when the payments of one vendor complete concurrently, each write of
\* the preferences lowers the stored budget of a discounted token by that
\* payment's consumption (stopping at zero), so that the budget ends lowered
\* by the sum of the consumptions: no write puts back a value read before
\* another completion's write.
C6_NoLostDecrement ==
    [][\A h \in Slots : (WritesPreferences(h) /\ AllPaymentsCompleted) =>
          \A i \in DOMAIN reqs[h].consumptions :
             (/\ RLt(RZero, reqs[h].consumptions[i].amount_used)
              /\ reqs[h].consumptions[i].symbol \in DOMAIN preferences)
                => preferences'[reqs[h].consumptions[i].symbol]
                     = RMax(RSub(preferences[reqs[h].consumptions[i].symbol],
                                 reqs[h].consumptions[i].amount_used), RZero)]_vars

\* C7: in every step the absolute value of every preference budget does not
\* increase and its sign does not flip.
C7_BudgetNeverGrows ==
    [][\A k \in DOMAIN preferences :
          /\ k \in DOMAIN preferences'
          /\ RLe(RAbs(preferences'[k]), RAbs(preferences[k]))
          /\ (RLt(RZero, preferences[k]) => RLe(RZero, preferences'[k]))
          /\ (RLt(preferences[k], RZero) => RLe(preferences'[k], RZero))]_vars

(***************************************************************************)
(* Properties of the calculator (SpecCalc).                                *)
(***************************************************************************)
Sign(r) == IF RLt(RZero, r) THEN 1 ELSE IF RLt(r, RZero) THEN -1 ELSE 0

\* payment_amount x (balance x average_valuation) / sum of the wallet
share_value(token, payment_amount, balances) ==
    RDiv(RMul(payment_amount, RMul(token.balance, token.average_valuation)),
         total_wallet_value(balances))

\* sign(preference) x min(0.2 x share_value, |preference|)
ExpectedUsed(preference, share) ==
    RMul(R(Sign(preference)), RMin(RDiv(share, R(5)), RAbs(preference)))

ConsumptionAsStated(i) ==
    /\ calc.consumptions[i].token_key = calc.balances[i].token_key
    /\ calc.consumptions[i].amount_used
         = ExpectedUsed(preference_amount(calc.prefs, calc.balances[i]),
                        share_value(calc.balances[i], calc.price, calc.balances))
    /\ RLe(RAbs(calc.consumptions[i].amount_used),
           RDiv(share_value(calc.balances[i], calc.price, calc.balances), R(5)))
    /\ RLe(RAbs(calc.consumptions[i].amount_used),
           RAbs(preference_amount(calc.prefs, calc.balances[i])))
    /\ Sign(calc.consumptions[i].amount_used)
         \in {0, Sign(preference_amount(calc.prefs, calc.balances[i]))}

ConsumptionsAsStated ==
    calc.stage \notin {"off", "input"} =>
        IF total_wallet_value(calc.balances) = RZero
        THEN calc.consumptions = <<>>
        ELSE /\ Len(calc.consumptions) = Len(calc.balances)
             /\ \A i \in DOMAIN calc.consumptions : ConsumptionAsStated(i)

\* entry i of the discounted bundle is `factor` times its amount before the
\* discounts, when the preference of its token has the sign `sign` and
\* |preference| >= 0.2 x share_value
ScaledWhenCapped(i, sign, factor) ==
    (/\ Sign(preference_amount(calc.prefs,
                calc.balances[BalanceOf(calc.balances, calc.final[i].token_key)]))
          \in sign
     /\ RLe(RDiv(share_value(
                   calc.balances[BalanceOf(calc.balances, calc.final[i].token_key)],
                   calc.price, calc.balances), R(5)),
            RAbs(preference_amount(calc.prefs,
                   calc.balances[BalanceOf(calc.balances, calc.final[i].token_key)]))))
      => calc.final[i].amount_to_pay = RMul(factor, calc.initial[i].amount_to_pay)

Discounted == calc.stage \in {"discounted", "verified", "rejected"}

\* C8: when the wallet has value, calculate_vendor_valuations returns for
\* every token amount_used = sign(preference) x min(0.2 x share_value,
\* |preference|) (so within both bounds, of the preference's sign, 0 for a
\* zero or absent preference), and no entry at all when the wallet has no
\* value; when |preference| >= 0.2 x share_value the discounted amount is
\* 0.8 of the amount before discounts for a positive preference and 1.2 of
\* it for a negative one.
C8_ConsumptionFormula ==
    /\ ConsumptionsAsStated
    /\ Discounted =>
          \A i \in DOMAIN calc.final :
              /\ ScaledWhenCapped(i, {1}, <<4, 5>>)
              /\ ScaledWhenCapped(i, {-1}, <<6, 5>>)

\* C8 witness: a discounted bundle with an entry that pays a positive amount
\* for a token whose positive preference is at least 0.2 x its share
C8_FullDiscountApplied ==
    /\ Discounted
    /\ \E i \in DOMAIN calc.final :
          /\ RLt(RZero, calc.final[i].amount_to_pay)
          /\ RLt(RZero, calc.consumptions[
                   BalanceOf(calc.balances, calc.final[i].token_key)].amount_used)
          /\ RLe(RDiv(share_value(
                   calc.balances[BalanceOf(calc.balances, calc.final[i].token_key)],
                   calc.price, calc.balances), R(5)),
                 preference_amount(calc.prefs,
                   calc.balances[BalanceOf(calc.balances, calc.final[i].token_key)]))

\* C8 as stated: the discounted amount is 0.8 of the amount before discounts
\* whenever |preference| >= 0.2 x share_value, whatever the preference's sign
C8_AsStated ==
    /\ ConsumptionsAsStated
    /\ Discounted =>
          \A i \in DOMAIN calc.final : ScaledWhenCapped(i, {-1, 0, 1}, <<4, 5>>)

BundleDone == calc.stage \in {"bundled", "bundle_failed"}

\* sum of amount_to_pay x average_valuation over the bundle just computed
BundleValue == BundleCost(calc.initial, calc.balances)

\* C9: for a wallet of positive total value and a price between 0 and that
\* value, calculate_payment_bundle succeeds and the bundle's amounts, valued
\* at each token's average_valuation, sum to the price.
C9_BundleConservesValue ==
    (/\ BundleDone
     /\ RLt(RZero, total_wallet_value(calc.balances))
     /\ RLe(calc.price, total_wallet_value(calc.balances)))
       => /\ calc.stage = "bundled"
          /\ BundleValue = calc.price

\* C9 witness: a bundle of two paying tokens for a positive price
C9_TwoTokenBundle ==
    /\ calc.stage = "bundled"
    /\ RLt(RZero, calc.price)
    /\ Len(calc.initial) = 2
    /\ \A i \in DOMAIN calc.initial : RLt(RZero, calc.initial[i].amount_to_pay)
    /\ calc.balances[1].average_valuation # ROne

\* C9 as stated: the same for every wallet, one of no value included
C9_AsStated ==
    (/\ BundleDone
     /\ RLe(calc.price, total_wallet_value(calc.balances)))
       => /\ calc.stage = "bundled"
          /\ BundleValue = calc.price

\* what token owes of the price in token units: its share of the price by
\* value, divided by its valuation; 0 for a token of valuation 0
Owed(token, price, balances) ==
    IF RLt(RZero, token.average_valuation)
    THEN RDiv(share_value(token, price, balances), token.average_valuation)
    ELSE RZero

\* the tokens of the wallet that owe more than their balance, by position
Offenders ==
    { i \in DOMAIN calc.balances :
        RLt(calc.balances[i].balance,
            Owed(calc.balances[i], calc.price, calc.balances)) }

\* C11: calculate_payment_bundle returns a bundle if and only if the total
\* wallet value is nonzero and the price is at most that value; it fails
\* with "Portfolio has no value" exactly when the total is 0, and with a
\* per-token "Insufficient" error whenever 0 < total < price.
C11_BundleIffAffordable ==
    BundleDone =>
        /\ calc.result.ok <=>
              (/\ total_wallet_value(calc.balances) # RZero
               /\ RLe(calc.price, total_wallet_value(calc.balances)))
        /\ (calc.result.err = "Portfolio has no value") <=>
              (total_wallet_value(calc.balances) = RZero)
        /\ (/\ RLt(RZero, total_wallet_value(calc.balances))
            /\ RLt(total_wallet_value(calc.balances), calc.price))
              => (~calc.result.ok /\ calc.result.err = "Insufficient")

\* C11 witness: a wallet of positive value below the price, refused with a
\* per-token error
C11_PerTokenFailure ==
    /\ calc.stage = "bundle_failed"
    /\ calc.result.err = "Insufficient"
    /\ RLt(RZero, total_wallet_value(calc.balances))
    /\ RLt(total_wallet_value(calc.balances), calc.price)

\* C12: when calculate_payment_bundle fails for insufficient balance, the
\* error names the first token in input order that owes more than its
\* balance, with the amount owed and the balance held, and no bundle, not
\* even a partial one, is returned.
C12_FirstOffenderNamed ==
    (calc.stage = "bundle_failed" /\ calc.result.err = "Insufficient") =>
        /\ Offenders # {}
        /\ \A i \in Offenders :
              (\A j \in Offenders : i <= j) =>
                  /\ calc.result.symbol = calc.balances[i].symbol
                  /\ calc.result.need = Owed(calc.balances[i], calc.price, calc.balances)
                  /\ calc.result.have = calc.balances[i].balance
        /\ calc.result.value = <<>>
        /\ calc.initial = <<>>

\* C12 witness: the error names the second token of the wallet, the first
\* one holding a balance it does not exceed
C12_SecondTokenNamed ==
    /\ calc.stage = "bundle_failed"
    /\ calc.result.err = "Insufficient"
    /\ Len(calc.balances) = 2
    /\ calc.result.symbol = calc.balances[2].symbol
    /\ RLt(RZero, calc.balances[1].balance)

\* the token_key and symbol of every entry, in order
Keys(seq) ==
    Vec([i \in DOMAIN seq |-> <<seq[i].token_key, seq[i].symbol>>])

\* C13: a successful calculate_payment_bundle result has no entry for a
\* token of balance 0 and exactly one entry, in input order, for every token
\* of nonzero balance.
C13_ZeroBalanceSkipped ==
    calc.stage = "bundled" =>
        Keys(calc.initial)
          = Keys(SelectSeq(calc.balances, LAMBDA b : b.balance # RZero))

\* C13 witness: a bundle for a positive price from a wallet with one token
\* of balance 0 and one of nonzero balance
C13_OneTokenSkipped ==
    /\ calc.stage = "bundled"
    /\ RLt(RZero, calc.price)
    /\ Len(calc.balances) = 2
    /\ Len(calc.initial) = 1
    /\ calc.balances[1].balance = RZero

HasKey(seq, token_key) == \E j \in DOMAIN seq : seq[j].token_key = token_key

\* the entry of `seq` for token_key, when HasKey(seq, token_key)
EntryOf(seq, token_key) ==
    seq[CHOOSE j \in DOMAIN seq : seq[j].token_key = token_key]

\* sum of amount_used over the consumptions
SumUsed(consumptions) ==
    SumSeq(Vec([i \in DOMAIN consumptions |-> consumptions[i].amount_used]))

\* the pipeline returned a cost, for a wallet of positive valuations and a
\* price within its value
PipelineReturned ==
    /\ calc.stage = "verified"
    /\ \A i \in DOMAIN calc.balances : RLt(RZero, calc.balances[i].average_valuation)
    /\ RLe(calc.price, total_wallet_value(calc.balances))

\* C17: for balances of positive valuations and a price within the total
\* wallet value, the cost returned at the end of the pipeline (bundle,
\* vendor valuations, discounts, verification) is price - sum of amount_used,
\* no amount having been stopped at 0; with a single token whose budget
\* exceeds the cap of 0.2 x price the cost is 0.8 x price.
C17_CostIsPriceLessDiscounts ==
    PipelineReturned =>
        /\ calc.result.ok
        /\ calc.result.value = RSub(calc.price, SumUsed(calc.consumptions))
        /\ \A i \in DOMAIN calc.final :
              calc.final[i].amount_to_pay =
                 RSub(calc.initial[i].amount_to_pay,
                      RDiv(EntryOf(calc.consumptions, calc.final[i].token_key).amount_used,
                           EntryOf(calc.balances, calc.final[i].token_key).average_valuation))
        /\ (/\ Len(calc.balances) = 1
            /\ RLt(RMul(Lambda, calc.price),
                   preference_amount(calc.prefs, calc.balances[1])))
              => calc.result.value = RMul(<<4, 5>>, calc.price)

\* C17 witness: a cost returned for a positive price paid from a wallet of
\* one token whose budget exceeds the cap
C17_SingleTokenDiscounted ==
    /\ PipelineReturned
    /\ RLt(RZero, calc.price)
    /\ Len(calc.balances) = 1
    /\ calc.balances[1].average_valuation # ROne
    /\ RLt(RMul(Lambda, calc.price), preference_amount(calc.prefs, calc.balances[1]))

(***************************************************************************)
(* Properties of the discount applier and the verifier (SpecApply).        *)
(***************************************************************************)
\* C14: for non-negative balances, valuations and price, every TokenPayment
\* that calculate_payment_bundle returns and every TokenPayment after
\* apply_discounts_to_payment has amount_to_pay >= 0, whatever the discount
\* or premium amounts, a discount above the token's payment value included.
C14_AmountsNonNegative ==
    /\ \A i \in DOMAIN calc.initial : RLe(RZero, calc.initial[i].amount_to_pay)
    /\ \A i \in DOMAIN calc.final : RLe(RZero, calc.final[i].amount_to_pay)

\* C14 witness: a bundle computed by calculate_payment_bundle in which a
\* discount above the payment value of a token left the token's amount at 0
C14_DiscountClamped ==
    /\ Discounted
    /\ RLt(RZero, calc.price)
    /\ \E i \in DOMAIN calc.final :
          /\ calc.final[i].amount_to_pay = RZero
          /\ HasKey(calc.consumptions, calc.final[i].token_key)
          /\ RLt(RMul(calc.initial[i].amount_to_pay,
                      EntryOf(calc.balances, calc.final[i].token_key).average_valuation),
                 EntryOf(calc.consumptions, calc.final[i].token_key).amount_used)

\* the amount of entry i after a consumption of amount_used, for a token of
\* market valuation `valuation`
AmountAfter(amount, amount_used, valuation) ==
    IF valuation = RZero THEN amount
    ELSE RMax(RZero, RSub(amount, RDiv(amount_used, valuation)))

\* C15: apply_discounts_to_payment sets each entry's amount_to_pay to
\* max(0, amount_to_pay - amount_used / market_valuation) for the
\* consumption with the same token_key, leaves the entry unchanged when it
\* has no matching consumption, when amount_used is 0 or when the market
\* valuation is 0, and keeps the bundle's length, order, token keys and
\* symbols.
C15_DiscountApplied ==
    Discounted =>
        /\ Keys(calc.final) = Keys(calc.initial)
        /\ \A i \in DOMAIN calc.final :
              IF \/ ~HasKey(calc.consumptions, calc.initial[i].token_key)
                 \/ EntryOf(calc.consumptions, calc.initial[i].token_key).amount_used
                      = RZero
              THEN calc.final[i] = calc.initial[i]
              ELSE HasKey(calc.balances, calc.initial[i].token_key) =>
                     calc.final[i].amount_to_pay =
                        AmountAfter(
                           calc.initial[i].amount_to_pay,
                           EntryOf(calc.consumptions, calc.initial[i].token_key).amount_used,
                           EntryOf(calc.balances, calc.initial[i].token_key).average_valuation)

\* C15 witness: a premium raised the amount of a token whose market
\* valuation is not 1, in a bundle with an entry no consumption matches
C15_PremiumRaisesAmount ==
    /\ Discounted
    /\ \E i \in DOMAIN calc.final :
          /\ RLt(calc.initial[i].amount_to_pay, calc.final[i].amount_to_pay)
          /\ HasKey(calc.balances, calc.final[i].token_key)
          /\ EntryOf(calc.balances, calc.final[i].token_key).average_valuation
               \notin {RZero, ROne}
    /\ \E i \in DOMAIN calc.final :
          ~HasKey(calc.consumptions, calc.final[i].token_key)

\* sum of amount_to_pay x market valuation over the entries of the bundle
\* whose token is among the balances
CostInFiat(bundle, balances) ==
    SumSeq(Vec([i \in DOMAIN bundle |->
        IF HasKey(balances, bundle[i].token_key)
        THEN RMul(bundle[i].amount_to_pay,
                  EntryOf(balances, bundle[i].token_key).average_valuation)
        ELSE RZero]))

\* every entry whose token is among the balances is within its balance
EntriesWithinBalance(bundle, balances) ==
    \A i \in DOMAIN bundle :
        HasKey(balances, bundle[i].token_key) =>
            RLe(bundle[i].amount_to_pay,
                EntryOf(balances, bundle[i].token_key).balance)

Verified == calc.stage \in {"verified", "rejected"}

\* C16: verify_sufficient_funds_after_discounts returns Ok(actual_cost),
\* actual_cost the sum of amount_to_pay x market valuation, if and only if
\* actual_cost <= total wallet value and amount_to_pay <= balance for every
\* entry whose token_key is among the balances; otherwise it returns an
\* error, the total-cost error when both checks fail.
C16_VerifyIffWithinFunds ==
    Verified =>
        /\ calc.result.ok <=>
              (/\ RLe(CostInFiat(calc.final, calc.balances),
                      total_wallet_value(calc.balances))
               /\ EntriesWithinBalance(calc.final, calc.balances))
        /\ calc.result.ok => calc.result.value = CostInFiat(calc.final, calc.balances)
        /\ RLt(total_wallet_value(calc.balances), CostInFiat(calc.final, calc.balances))
              => calc.result.err = "Insufficient funds after vendor adjustments"
        /\ (/\ RLe(CostInFiat(calc.final, calc.balances),
                    total_wallet_value(calc.balances))
            /\ ~EntriesWithinBalance(calc.final, calc.balances))
              => calc.result.err = "Insufficient"

\* C16 witness: a bundle that fails both checks, refused with the
\* total-cost error
C16_TotalErrorFirst ==
    /\ calc.stage = "rejected"
    /\ calc.result.err = "Insufficient funds after vendor adjustments"
    /\ ~EntriesWithinBalance(calc.final, calc.balances)

\* the balances, each valued at the vendor valuation of its symbol when
\* vendor_valuations holds one
ValuedByVendor(balances, vendor_valuations) ==
    Vec([i \in DOMAIN balances |->
        IF \E j \in DOMAIN vendor_valuations :
              vendor_valuations[j].symbol = balances[i].symbol
        THEN [balances[i] EXCEPT !.average_valuation =
                 vendor_valuations[CHOOSE j \in DOMAIN vendor_valuations :
                     vendor_valuations[j].symbol = balances[i].symbol].valuation]
        ELSE balances[i]])

\* C10: the result of calculate_payment_bundle is the one obtained with each
\* token valued at the vendor valuation matching its symbol, and at its own
\* average_valuation when there is none.
C10_VendorValuationUsed ==
    BundleDone =>
        calc.result = calculate_payment_bundle(
                          ValuedByVendor(calc.balances, calc.valuations),
                          calc.valuations, calc.price)

(***************************************************************************)
(* Properties of the transaction records and market prices (SpecLedger).   *)
(***************************************************************************)
\* this step inserts a transaction record
InsertsRecord == Len(records') = Len(records) + 1

\* the record names a stored payment that holds a pre-discount amount of
\* its token and a nonzero post-discount amount, the amount the record pays
HasBothAmounts(rec) ==
    /\ rec.payment_id \in DOMAIN payments
    /\ payments[rec.payment_id].initial_payment_bundle # None
    /\ payments[rec.payment_id].computed_payment # None
    /\ HasKey(payments[rec.payment_id].initial_payment_bundle[1], rec.token_key)
    /\ HasKey(payments[rec.payment_id].computed_payment[1], rec.token_key)
    /\ EntryOf(payments[rec.payment_id].computed_payment[1],
               rec.token_key).amount_to_pay # RZero
    /\ EntryOf(payments[rec.payment_id].computed_payment[1],
               rec.token_key).amount_to_pay = rec.amount_paid

\* pre-discount amount / post-discount amount of the record's token
PreOverPost(rec) ==
    RDiv(EntryOf(payments[rec.payment_id].initial_payment_bundle[1],
                 rec.token_key).amount_to_pay,
         EntryOf(payments[rec.payment_id].computed_payment[1],
                 rec.token_key).amount_to_pay)

\* C18: the effective_valuation of each TransactionRecord written when a
\* payment completes is the token's pre-discount amount (in
\* initial_payment_bundle) divided by its post-discount amount (in the final
\* bundle).
C18_EffectiveValuationRatio ==
    [][(InsertsRecord /\ HasBothAmounts(records'[Len(records')]))
          => records'[Len(records')].effective_valuation
               = PreOverPost(records'[Len(records')])]_vars

\* C19: there is at most one TransactionRecord per (payment_id, token_key),
\* and every TransactionRecord names a stored payment whose status is
\* Completed.
C19_OneRecordPerToken ==
    /\ \A i, j \in DOMAIN records :
          (/\ records[i].payment_id = records[j].payment_id
           /\ records[i].token_key = records[j].token_key) => i = j
    /\ \A i \in DOMAIN records :
          /\ records[i].payment_id \in DOMAIN payments
          /\ payments[records[i].payment_id].status = "Completed"

Reverse(seq) == Vec([i \in 1..Len(seq) |-> seq[Len(seq) + 1 - i]])

\* the stored records of a token, newest first
RecordsOf(token_key) ==
    Reverse(SelectSeq(records, LAMBDA r : r.token_key = token_key))

\* sum of amount_paid x (20 - i) / 20 over the records of a token, i from 0
\* at the newest
Denominator(token_key) ==
    SumSeq(Vec([i \in DOMAIN RecordsOf(token_key) |->
        RMul(RecordsOf(token_key)[i].amount_paid, <<21 - i, 20>>)]))

\* calculate_new_market_price has no price for the token
NoPrice(token_key) ==
    \/ RecordsOf(token_key) = <<>>
    \/ Denominator(token_key) = RZero

\* the token whose records handler h reads in this step
Picked(h) ==
    IF reqs'[h].pc = "pricewrite" THEN {reqs'[h].token}
    ELSE reqs[h].tokens \ reqs'[h].tokens

\* C20: calculate_new_market_price returns an error for a token without
\* transaction records and for one whose sum of amount_paid x weight is 0;
\* update_market_prices then writes no price for that token and goes on to
\* the remaining tokens of the bundle; so a step that changes a token's
\* market price finds records of that token with a nonzero weight sum.
C20_NoPriceNoUpdate ==
    [][/\ \A h \in Slots :
             (reqs[h].pc = "prices" /\ reqs'[h] # reqs[h]) =>
                \A t \in Picked(h) :
                   NoPrice(t) =>
                      /\ market_prices' = market_prices
                      /\ reqs'[h].pc # "pricewrite"
                      /\ (reqs[h].tokens # {t}) =>
                            /\ reqs'[h].pc = "prices"
                            /\ reqs'[h].tokens = reqs[h].tokens \ {t}
       /\ \A t \in DOMAIN market_prices :
             market_prices'[t] # market_prices[t] => ~NoPrice(t)]_vars

\* C20 witness: a handler about to write the price of one token of its
\* bundle after it found no price for another token of the bundle
C20_RemainingTokenPriced ==
    \E h \in Slots :
        /\ reqs[h].pc = "pricewrite"
        /\ \E t \in unique_tokens(reqs[h].bundle) :
              /\ t # reqs[h].token
              /\ t \notin reqs[h].tokens
              /\ NoPrice(t)

(***************************************************************************)
(* Properties of the record window (SpecWindow).                           *)
(***************************************************************************)
\* the window calculate_new_market_price has read
Window == calc.final

\* how many times the sequence holds the value (two records stored with one
\* timestamp are equal values)
Count(seq, v) == Cardinality({ i \in DOMAIN seq : seq[i] = v })

\* the stored records of the token asked for
OfToken == SelectSeq(records, LAMBDA r : r.token_key = calc.token_key)

\* the records of the token that the window leaves out
LeftOut ==
    { OfToken[k] : k \in { i \in DOMAIN OfToken :
                              Count(OfToken, OfToken[i]) > Count(Window, OfToken[i]) } }

\* C21: the window of calculate_new_market_price holds at most 20 records
\* (all records of the token when there are at most 20), all of the token
\* asked for, newest first, and no record of the token left out is newer
\* than one included; the weight (20 - i) / 20 of position i is 1 at the
\* newest, at least 1/20, and does not increase with age.
C21_WindowNewestFirst ==
    calc.stage = "window" =>
        /\ Len(Window) <= 20
        /\ Len(Window) = IF Len(OfToken) > 20 THEN 20 ELSE Len(OfToken)
        /\ \A i \in DOMAIN Window :
              /\ Window[i].token_key = calc.token_key
              /\ Count(Window, Window[i]) <= Count(OfToken, Window[i])
        /\ \A i, j \in DOMAIN Window :
              i < j => Window[i].timestamp >= Window[j].timestamp
        /\ \A r \in LeftOut : \A i \in DOMAIN Window :
              r.timestamp <= Window[i].timestamp
        /\ Window # <<>> => weight(0) = ROne
        /\ \A i \in DOMAIN Window : RLe(<<1, 20>>, weight(i - 1))
        /\ \A i, j \in DOMAIN Window :
              Window[i].timestamp > Window[j].timestamp
                 => RLe(weight(j - 1), weight(i - 1))

\* C21 witness: a window of 20 records read from more than 20 records of the
\* token, where the record stored last is older than the one stored before
\* it and a record is left out
C21_LateRecordSorted ==
    /\ calc.stage = "window"
    /\ Len(Window) = 20
    /\ Len(OfToken) > 20
    /\ OfToken[Len(OfToken)].timestamp < OfToken[Len(OfToken) - 1].timestamp
    /\ Window[2] = OfToken[Len(OfToken)]
    /\ LeftOut # {}

(***************************************************************************)
(* Properties of the bonding curve (SpecCurve).                            *)
(***************************************************************************)
\* (cost - amount) / amount
RelativeError(cost, amount) == RDiv(RSub(cost, amount), amount)

\* C22: for every amount > 0 and current_tokens_purchased >= 0, the cost on
\* the curve of the tokens returned by calculate_tokens_for_amount, by the
\* trapezoid (price(current) + price(current + tokens)) / 2 x tokens, is
\* within 0.1% of the amount.
C22_InverseWithinTolerance ==
    calc.stage = "costed" =>
        RLe(RAbs(RelativeError(calc.cost, calc.amount)), <<1, 1000>>)

(***************************************************************************)
(* Properties of normalize_payment_code (SpecCode).                        *)
(***************************************************************************)
LowercaseAscii == {"a", "b", "o", "i", "l"}

\* what the claim says of one ASCII character
Normalized(c) ==
    CASE c \in {"o", "O"} -> "0"
      [] c \in {"i", "I", "l", "L"} -> "1"
      [] c = "a" -> "A"
      [] c = "b" -> "B"
      [] OTHER -> c

IsAscii(code) == \A i \in DOMAIN code : code[i] \in AsciiChars

\* the output has the length of the input and, at every position, the
\* normalized character of the input
PositionsKept(input, output) ==
    /\ Len(output) = Len(input)
    /\ \A i \in DOMAIN input : output[i] = Normalized(input[i])

\* the output has no lowercase ASCII letter and none of O, I, L
NoAmbiguousLetter(output) ==
    \A i \in DOMAIN output : output[i] \notin LowercaseAscii \cup {"O", "I", "L"}

\* C23 (amended): normalize_payment_code is idempotent and its output has
\* no lowercase ASCII letter and none of O, I, L; on an input of ASCII
\* characters it keeps the length and the position of every character (O
\* becomes 0, I and L become 1, every other letter is uppercased).
C23_NormalizeAscii ==
    /\ calc.stage \in {"normalized", "renormalized"} =>
          /\ NoAmbiguousLetter(calc.normalized)
          /\ IsAscii(calc.code) => PositionsKept(calc.code, calc.normalized)
    /\ calc.stage = "renormalized" => calc.again = calc.normalized

\* C23 witness: a code of three ASCII characters with a lowercase letter and
\* an L, normalized twice
C23_LowercaseAndL ==
    /\ calc.stage = "renormalized"
    /\ calc.code = <<"a", "L", "o">>
    /\ calc.normalized = <<"A", "1", "0">>

\* C23 as stated: normalize_payment_code is idempotent, keeps the length and
\* the position of every character of any input, and its output has no
\* lowercase ASCII letter and none of O, I, L.
C23_AsStated ==
    /\ calc.stage \in {"normalized", "renormalized"} =>
          /\ NoAmbiguousLetter(calc.normalized)
          /\ Len(calc.normalized) = Len(calc.code)
    /\ calc.stage = "renormalized" => calc.again = calc.normalized

(***************************************************************************)
(* Properties of supplement_transaction and of the completion of payments  *)
(* (Spec, SpecLedger).                                                     *)
(***************************************************************************)
\* C24: once a payment has a customer_address it never changes to another
\* address, also when two payers call supplement_transaction concurrently
\* on a payment in status Created.
C24_CustomerNeverReassigned ==
    [][\A id \in DOMAIN payments :
          (id \in DOMAIN payments' /\ payments[id].customer_address # None)
             => payments'[id].customer_address = payments[id].customer_address]_vars


\* the positive amount_used of the token in the discount consumption a
\* Completed payment has recorded, 0 for any other payment
UsedBy(id, symbol) ==
    IF /\ id \in DOMAIN payments
       /\ payments[id].status = "Completed"
       /\ payments[id].discount_consumption # None
    THEN SumSeq(Vec([i \in DOMAIN payments[id].discount_consumption[1] |->
             IF /\ payments[id].discount_consumption[1][i].symbol = symbol
                /\ RLt(RZero, payments[id].discount_consumption[1][i].amount_used)
             THEN payments[id].discount_consumption[1][i].amount_used
             ELSE RZero]))
    ELSE RZero

\* the sum over the Completed payments
UsedByCompleted(symbol) ==
    SumSeq(Vec([i \in DOMAIN PaymentIdSeq |-> UsedBy(PaymentIdSeq[i], symbol)]))

\* C25: for one vendor and one token, the sum of the positive amount_used
\* over the payments that have reached Completed does not exceed the budget
\* the vendor had for the token before the first of them was quoted (the
\* budget the model starts with).
C25_CompletedWithinBudget ==
    \A symbol \in DOMAIN InitialPreferences :
        RLt(RZero, InitialPreferences[symbol])
            => RLe(UsedByCompleted(symbol), InitialPreferences[symbol])

\* C26: a supplement_transaction whose path code normalizes to a stored
\* payment_id and that answers with status Calculated has left that payment
\* with status Calculated and computed_payment equal to the returned bundle.
C26_CalculatedIsPersisted ==
    [][\A h \in Slots :
          (/\ reqs[h].pc = "persist"
           /\ reqs'[h].pc = "idle"
           /\ response'.kind = "Calculated"
           /\ normalize_payment_code(reqs[h].code) \in DOMAIN payments)
             => /\ normalize_payment_code(reqs[h].code) \in DOMAIN payments'
                /\ payments'[normalize_payment_code(reqs[h].code)].status
                     = "Calculated"
                /\ payments'[normalize_payment_code(reqs[h].code)].computed_payment
                     = Some(reqs[h].final)]_vars

\* C27: a supplement_transaction that fails in the bundle computation or in
\* the affordability check leaves the persisted payment unchanged.  With one
\* request at a time the quote that follows the write of
\* update_payment_with_payer is computed from the preferences, balances and
\* price of this step: when that quote is an error, the step changes no
\* payment.
C27_FailedQuoteLeavesPayment ==
    [][\A h \in LedgerSlots :
          (/\ reqs[h].pc = "assign"
           /\ reqs'[h].pc = "quote"
           /\ ~Quote(preferences, reqs[h].balances, reqs'[h].price).ok)
             => payments' = payments]_vars

\* C28: every TransactionRecord written for a payment with a persisted
\* computed_payment has amount_paid equal to the amount of its token in that
\* computed_payment, whatever payment_bundle the sign request carries.
C28_RecordPaysComputedAmount ==
    [][(/\ InsertsRecord
        /\ records'[Len(records')].payment_id \in DOMAIN payments
        /\ payments[records'[Len(records')].payment_id].computed_payment # None)
          => /\ HasKey(payments[records'[Len(records')].payment_id].computed_payment[1],
                       records'[Len(records')].token_key)
             /\ records'[Len(records')].amount_paid
                  = EntryOf(payments[records'[Len(records')].payment_id].computed_payment[1],
                            records'[Len(records')].token_key).amount_to_pay]_vars


(***************************************************************************)
(* Properties of credit_account_with_fee_split (SpecCredit).               *)
(***************************************************************************)
\* every call of the model has returned Ok
AllCredited == \A h \in CreditSlots : credits[h].pc = "done" /\ credits[h].result = "Ok"

\* the sum of the deposit amounts of the calls
SumCredited ==
    SumSeq(Vec([h \in CreditSlots |-> credits[h].amount_in_dollars]))

\* C29: across any interleaving of credit_account_with_fee_split calls for
\* one cause, tokens_purchased, current_price and amount_donated never
\* decrease, and when all calls have finished amount_donated has grown by
\* the sum of the credited deposit amounts.
C29_NoLostDeposit ==
    [][/\ RLe(cause.tokens_purchased, cause'.tokens_purchased)
       /\ RLe(cause.current_price, cause'.current_price)
       /\ RLe(cause.amount_donated, cause'.amount_donated)
       /\ AllCredited' =>
             cause'.amount_donated = RAdd(NewCause.amount_donated, SumCredited')]_vars

\* C30: when a call of credit_account_with_fee_split that ran with no other
\* call in flight has returned an error, the cause's bonding-curve state is
\* the one the call read when it began.
C30_ErrorLeavesCurve ==
    \A h \in CreditSlots :
        (/\ credits[h].pc = "done"
         /\ credits[h].result # "Ok"
         /\ \A g \in CreditSlots \ {h} : credits[g].pc = "idle")
           => cause = credits[h].cause

====
